---- MODULE Spec2Model ----
(***************************************************************************)
(* State-machine models of the finite-automaton examples of the            *)
(* xp_design_patterns repository:                                          *)
(*   - the TextStats scanner in its three dispatch strategies              *)
(*       benches/01_enums_fsm.rs                  (tagged variant)         *)
(*       benches/02_traits_fsm.rs                 (dynamic interface)      *)
(*       examples/07_state_machine_typed_stats1.rs (typestate)             *)
(*   - the block-comment byte counter                                      *)
(*       examples/06_state_machine_enums_comments.rs (per-state helpers)   *)
(*       old/06_state_machine_comments.rs            (tuple match)         *)
(*   - the typestate HttpClient                                            *)
(*       examples/06_state_machine_typed.rs                                *)
(***************************************************************************)
EXTENDS Integers, Sequences, FiniteSets, TLC

(***************************************************************************)
(* Bounds of the exploration.                                              *)
(***************************************************************************)
\* longest text explored exhaustively (longer example texts are listed apart)
MaxLen == 3

\* longest byte sequence explored exhaustively
MaxBytes == 6

\* most method calls made on one HttpClient, HttpClient::new included
MaxOps == 7

\* most Process events applied to one demo machine
MaxEvents == 4

\* Event messages of the random dispatcher explored (its main sends 10)
MaxRandomMessages == 3

\* most calls (register, dispatch) made on one CommandBus
MaxBusOps == 4

(***************************************************************************)
(* Characters.  A char is its Unicode scalar value.                        *)
(***************************************************************************)
\* '\n'
NEWLINE == 10

\* char::is_alphabetic, restricted to the blocks the model draws chars from:
\* ASCII letters and the Number Forms block U+2160..U+2188 (Nl letters-numbers)
is_alphabetic(c) ==
    \/ c \in 65..90
    \/ c \in 97..122
    \/ c \in 8544..8584

\* char::is_numeric (general categories Nd, Nl, No), on the same blocks:
\* ASCII digits, Arabic-Indic digits, vulgar fractions, Roman numerals
is_numeric(c) ==
    \/ c \in 48..57
    \/ c \in 188..190
    \/ c \in 1632..1641
    \/ c \in 8544..8578
    \/ c \in 8581..8584

\* char::is_ascii_digit
is_ascii_digit(c) == c \in 48..57

\* one char of every combination of classes the scanners distinguish
\*   97   'a'  alphabetic
\*   49   '1'  numeric, ASCII digit
\*   10   '\n'
\*   32   ' '  none of the classes
\*   1635 U+0663 ARABIC-INDIC DIGIT THREE: numeric (Nd), not an ASCII digit
\*   8551 U+2167 ROMAN NUMERAL EIGHT: category Nl, alphabetic and numeric
Chars == {97, 49, NEWLINE, 32, 1635, 8551}

\* "ab 12\ncd"
TextAb12Cd == <<97, 98, 32, 49, 50, 10, 99, 100>>

\* "\n\n\n"
TextThreeNewlines == <<10, 10, 10>>

ExampleTexts == {TextAb12Cd, TextThreeNewlines}

Texts == (UNION {[1..n -> Chars] : n \in 0..MaxLen}) \cup ExampleTexts

(***************************************************************************)
(* TextStats record, shared shape of the three implementations.            *)
(***************************************************************************)
TextStats_default == [word_count |-> 0, line_count |-> 0, number_count |-> 0]

(***************************************************************************)
(* Tagged variant: benches/01_enums_fsm.rs                                 *)
(***************************************************************************)
\* Fsm::new starting inside a word
Fsm_new_in_word == [current_state |-> "InWord", statistics |-> TextStats_default]

Fsm_new == [current_state |-> "Whitespace", statistics |-> TextStats_default]

\* Fsm::process_char with the two first tests of the Whitespace arm swapped
Fsm_process_char_numeric_first(self, c) ==
    CASE self.current_state = "Whitespace" ->
            IF is_numeric(c)
            THEN [current_state |-> "InNumber",
                  statistics |-> [self.statistics EXCEPT !.number_count = @ + 1]]
            ELSE IF is_alphabetic(c)
            THEN [current_state |-> "InWord",
                  statistics |-> [self.statistics EXCEPT !.word_count = @ + 1]]
            ELSE IF c = NEWLINE
            THEN [self EXCEPT !.statistics.line_count = @ + 1]
            ELSE self
      [] self.current_state = "InWord" ->
            IF ~is_alphabetic(c)
            THEN [current_state |-> "Whitespace",
                  statistics |-> IF c = NEWLINE
                                 THEN [self.statistics EXCEPT !.line_count = @ + 1]
                                 ELSE self.statistics]
            ELSE self
      [] self.current_state = "InNumber" ->
            IF ~is_numeric(c)
            THEN [current_state |-> "Whitespace",
                  statistics |-> IF c = NEWLINE
                                 THEN [self.statistics EXCEPT !.line_count = @ + 1]
                                 ELSE self.statistics]
            ELSE self

Fsm_process_char(self, c) ==
    CASE self.current_state = "Whitespace" ->
            IF is_alphabetic(c)
            THEN [current_state |-> "InWord",
                  statistics |-> [self.statistics EXCEPT !.word_count = @ + 1]]
            ELSE IF is_numeric(c)
            THEN [current_state |-> "InNumber",
                  statistics |-> [self.statistics EXCEPT !.number_count = @ + 1]]
            ELSE IF c = NEWLINE
            THEN [self EXCEPT !.statistics.line_count = @ + 1]
            ELSE self
      [] self.current_state = "InWord" ->
            IF ~is_alphabetic(c)
            THEN [current_state |-> "Whitespace",
                  statistics |-> IF c = NEWLINE
                                 THEN [self.statistics EXCEPT !.line_count = @ + 1]
                                 ELSE self.statistics]
            ELSE self
      [] self.current_state = "InNumber" ->
            IF ~is_numeric(c)
            THEN [current_state |-> "Whitespace",
                  statistics |-> IF c = NEWLINE
                                 THEN [self.statistics EXCEPT !.line_count = @ + 1]
                                 ELSE self.statistics]
            ELSE self

\* the for loop of Fsm::process_text over the chars of txt
RECURSIVE Fsm_process_text_loop(_, _)
Fsm_process_text_loop(self, txt) ==
    IF Len(txt) = 0
    THEN self
    ELSE Fsm_process_text_loop(Fsm_process_char(self, Head(txt)), Tail(txt))

\* Fsm::process_text starting every call from Whitespace
Fsm_process_text_resets(self, txt) ==
    Fsm_process_text_loop([self EXCEPT !.current_state = "Whitespace"], txt)

Fsm_process_text(self, txt) == Fsm_process_text_loop(self, txt)

(***************************************************************************)
(* Dynamic interface: benches/02_traits_fsm.rs                             *)
(* A Box<dyn FsmState> is the name of its concrete type; process_char      *)
(* returns the next box together with the statistics it mutated.           *)
(***************************************************************************)
\* WhitespaceState::process_char testing is_numeric before is_alphabetic
WhitespaceState_process_char_numeric_first(c, statistics) ==
    IF is_numeric(c)
    THEN [box |-> "InNumberState",
          statistics |-> [statistics EXCEPT !.number_count = @ + 1]]
    ELSE IF is_alphabetic(c)
    THEN [box |-> "InWordState",
          statistics |-> [statistics EXCEPT !.word_count = @ + 1]]
    ELSE IF c = NEWLINE
    THEN [box |-> "WhitespaceState",
          statistics |-> [statistics EXCEPT !.line_count = @ + 1]]
    ELSE [box |-> "WhitespaceState", statistics |-> statistics]

WhitespaceState_process_char(c, statistics) ==
    IF is_alphabetic(c)
    THEN [box |-> "InWordState",
          statistics |-> [statistics EXCEPT !.word_count = @ + 1]]
    ELSE IF is_numeric(c)
    THEN [box |-> "InNumberState",
          statistics |-> [statistics EXCEPT !.number_count = @ + 1]]
    ELSE IF c = NEWLINE
    THEN [box |-> "WhitespaceState",
          statistics |-> [statistics EXCEPT !.line_count = @ + 1]]
    ELSE [box |-> "WhitespaceState", statistics |-> statistics]

\* InWordState::process_char without the newline test
InWordState_process_char_no_newline(c, statistics) ==
    IF ~is_alphabetic(c)
    THEN [box |-> "WhitespaceState", statistics |-> statistics]
    ELSE [box |-> "InWordState", statistics |-> statistics]

InWordState_process_char(c, statistics) ==
    IF ~is_alphabetic(c)
    THEN [box |-> "WhitespaceState",
          statistics |-> IF c = NEWLINE
                         THEN [statistics EXCEPT !.line_count = @ + 1]
                         ELSE statistics]
    ELSE [box |-> "InWordState", statistics |-> statistics]

\* InNumberState::process_char starting a word on an alphabetic char
InNumberState_process_char_direct_word(c, statistics) ==
    IF ~is_numeric(c)
    THEN IF is_alphabetic(c)
         THEN [box |-> "InWordState",
               statistics |-> [statistics EXCEPT !.word_count = @ + 1]]
         ELSE [box |-> "WhitespaceState",
               statistics |-> IF c = NEWLINE
                              THEN [statistics EXCEPT !.line_count = @ + 1]
                              ELSE statistics]
    ELSE [box |-> "InNumberState", statistics |-> statistics]

InNumberState_process_char(c, statistics) ==
    IF ~is_numeric(c)
    THEN [box |-> "WhitespaceState",
          statistics |-> IF c = NEWLINE
                         THEN [statistics EXCEPT !.line_count = @ + 1]
                         ELSE statistics]
    ELSE [box |-> "InNumberState", statistics |-> statistics]

\* virtual call through the trait object
FsmState_process_char(box, c, statistics) ==
    CASE box = "WhitespaceState" -> WhitespaceState_process_char(c, statistics)
      [] box = "InWordState"     -> InWordState_process_char(c, statistics)
      [] box = "InNumberState"   -> InNumberState_process_char(c, statistics)

\* Option<Box<dyn FsmState>>: None is <<>>, Some(b) is <<b>>
None == <<>>

Some(b) == <<b>>

TraitParser_new == [state |-> Some("WhitespaceState"), statistics |-> TextStats_default]

\* Option::take leaving the value in the slot
Option_take_keeps(slot) == [slot |-> slot, value |-> slot]

\* Option::take: the slot becomes None, the value moves out
Option_take(slot) == [slot |-> None, value |-> slot]

\* the assignment of the loop body leaving the slot empty
TraitParser_put_back_nothing(box) == None

\* `self.state = Some(...)`: the returned box moves into the slot
TraitParser_put_back(box) == Some(box)

\* the for loop of TraitParser::process_text; unwrap() of an empty slot
\* panics and the rest of txt is not scanned
RECURSIVE TraitParser_process_text_loop(_, _)
TraitParser_process_text_loop(self, txt) ==
    IF Len(txt) = 0 \/ self.state = None
    THEN self
    ELSE LET taken == Option_take(self.state)
             r == FsmState_process_char(taken.value[1], Head(txt), self.statistics)
         IN  TraitParser_process_text_loop(
                 [state |-> TraitParser_put_back(r.box), statistics |-> r.statistics],
                 Tail(txt))

TraitParser_process_text(self, txt) == TraitParser_process_text_loop(self, txt)

(***************************************************************************)
(* Typestate: examples/07_state_machine_typed_stats1.rs                    *)
(* Fsm<State> is its stats; each process_char mutates self.stats and       *)
(* returns a Machine holding a clone of them.                              *)
(***************************************************************************)
\* Machine::White built around default stats instead of the clone
Machine_White_default_stats(stats) == [variant |-> "White", stats |-> TextStats_default]

Machine_White(stats) == [variant |-> "White", stats |-> stats]

Machine_Word(stats) == [variant |-> "Word", stats |-> stats]

\* Machine::Number built on TextStats::default() instead of the clone
Machine_Number_default_stats(stats) == [variant |-> "Number", stats |-> TextStats_default]

Machine_Number(stats) == [variant |-> "Number", stats |-> stats]

\* Fsm<Whitespace>::process_char with two independent ifs: a char that is
\* alphabetic and an ASCII digit or numeric counts as a word and as a number
TypedFsm_Whitespace_process_char_counts_both(stats, c) ==
    LET s1 == IF c = NEWLINE THEN [stats EXCEPT !.line_count = @ + 1] ELSE stats
        s2 == IF is_numeric(c) THEN [s1 EXCEPT !.number_count = @ + 1] ELSE s1
    IN  IF is_alphabetic(c)
        THEN Machine_Word([s2 EXCEPT !.word_count = @ + 1])
        ELSE IF is_ascii_digit(c)
        THEN Machine_Number([s1 EXCEPT !.number_count = @ + 1])
        ELSE Machine_White(s1)

TypedFsm_Whitespace_process_char(stats, c) ==
    LET s1 == IF c = NEWLINE THEN [stats EXCEPT !.line_count = @ + 1] ELSE stats
    IN  IF is_alphabetic(c)
        THEN Machine_Word([s1 EXCEPT !.word_count = @ + 1])
        ELSE IF is_ascii_digit(c)
        THEN Machine_Number([s1 EXCEPT !.number_count = @ + 1])
        ELSE Machine_White(s1)

\* Fsm<InWord>::process_char following the table of the tagged variant:
\* a digit only ends the word
TypedFsm_InWord_process_char_no_direct(stats, c) ==
    IF c = NEWLINE
    THEN Machine_White([stats EXCEPT !.line_count = @ + 1])
    ELSE IF is_alphabetic(c)
    THEN Machine_Word(stats)
    ELSE Machine_White(stats)

TypedFsm_InWord_process_char(stats, c) ==
    IF c = NEWLINE
    THEN Machine_White([stats EXCEPT !.line_count = @ + 1])
    ELSE IF is_alphabetic(c)
    THEN Machine_Word(stats)
    ELSE IF is_ascii_digit(c)
    THEN Machine_Number([stats EXCEPT !.number_count = @ + 1])
    ELSE Machine_White(stats)

\* Fsm<InNumber>::process_char counting every digit as a new number
TypedFsm_InNumber_process_char_recount(stats, c) ==
    IF c = NEWLINE
    THEN Machine_White([stats EXCEPT !.line_count = @ + 1])
    ELSE IF is_ascii_digit(c)
    THEN Machine_Number([stats EXCEPT !.number_count = @ + 1])
    ELSE IF is_alphabetic(c)
    THEN Machine_Word([stats EXCEPT !.word_count = @ + 1])
    ELSE Machine_White(stats)

TypedFsm_InNumber_process_char(stats, c) ==
    IF c = NEWLINE
    THEN Machine_White([stats EXCEPT !.line_count = @ + 1])
    ELSE IF is_ascii_digit(c)
    THEN Machine_Number(stats)
    ELSE IF is_alphabetic(c)
    THEN Machine_Word([stats EXCEPT !.word_count = @ + 1])
    ELSE Machine_White(stats)

Machine_new == Machine_White(TextStats_default)

\* *self = next
Machine_process_char(self, c) ==
    CASE self.variant = "White"  -> TypedFsm_Whitespace_process_char(self.stats, c)
      [] self.variant = "Word"   -> TypedFsm_InWord_process_char(self.stats, c)
      [] self.variant = "Number" -> TypedFsm_InNumber_process_char(self.stats, c)

Machine_stats(self) == self.stats

\* the for loop of process_text over the chars of txt
RECURSIVE Machine_process_text_loop(_, _)
Machine_process_text_loop(self, txt) ==
    IF Len(txt) = 0
    THEN self
    ELSE Machine_process_text_loop(Machine_process_char(self, Head(txt)), Tail(txt))

\* process_text(text): a new Machine, the loop, a clone of its stats
Typed_process_text(txt) == Machine_stats(Machine_process_text_loop(Machine_new, txt))

(***************************************************************************)
(* Block-comment byte counter.  A byte is an integer in 0..255.            *)
(***************************************************************************)
\* b'/'
SLASH == 47

\* b'*'
STAR == 42

BYTE_NOT_COUNTED == 0

ONE_BYTE_COUNTED == 1

TWO_BYTES_COUNTED == 2

\* '/', '*' and 'a', a byte that is neither
Bytes == {SLASH, STAR, 97}

\* "/* hi */"
DataHi == <<47, 42, 32, 104, 105, 32, 42, 47>>

\* "/**a*/"
DataStarA == <<47, 42, 42, 97, 42, 47>>

\* "/***/ "
DataThreeStars == <<47, 42, 42, 42, 47, 32>>

ExampleData == {DataHi, DataStarA, DataThreeStars}

Datas == (UNION {[1..n -> Bytes] : n \in 0..MaxBytes}) \cup ExampleData

(***************************************************************************)
(* examples/06_state_machine_enums_comments.rs: Fsm with per-state helpers.*)
(* Each helper returns the machine after the call and the u64 it returns.  *)
(***************************************************************************)
CommentFsm_new == [current_state |-> "Code"]

\* process_code counting the bytes of the code
process_code_counts(self, b) ==
    IF b = SLASH
    THEN [self |-> [self EXCEPT !.current_state = "Slash"], ret |-> BYTE_NOT_COUNTED]
    ELSE [self |-> [self EXCEPT !.current_state = "Code"], ret |-> ONE_BYTE_COUNTED]

process_code(self, b) ==
    IF b = SLASH
    THEN [self |-> [self EXCEPT !.current_state = "Slash"], ret |-> BYTE_NOT_COUNTED]
    ELSE [self |-> [self EXCEPT !.current_state = "Code"], ret |-> BYTE_NOT_COUNTED]

\* process_slash letting the '*' of the opener act as a pending '*'
process_slash_pending_star(self, b) ==
    IF b = STAR
    THEN [self |-> [self EXCEPT !.current_state = "BlockStar"], ret |-> BYTE_NOT_COUNTED]
    ELSE [self |-> [self EXCEPT !.current_state = "Code"], ret |-> BYTE_NOT_COUNTED]

process_slash(self, b) ==
    IF b = STAR
    THEN [self |-> [self EXCEPT !.current_state = "Block"], ret |-> BYTE_NOT_COUNTED]
    ELSE [self |-> [self EXCEPT !.current_state = "Code"], ret |-> BYTE_NOT_COUNTED]

\* process_comment counting the '*' at once
process_comment_counts_star(self, b) ==
    IF b = STAR
    THEN [self |-> [self EXCEPT !.current_state = "BlockStar"], ret |-> ONE_BYTE_COUNTED]
    ELSE [self |-> [self EXCEPT !.current_state = "Block"], ret |-> ONE_BYTE_COUNTED]

process_comment(self, b) ==
    IF b = STAR
    THEN [self |-> [self EXCEPT !.current_state = "BlockStar"], ret |-> BYTE_NOT_COUNTED]
    ELSE [self |-> [self EXCEPT !.current_state = "Block"], ret |-> ONE_BYTE_COUNTED]

\* process_star forgetting the pending '*' when the comment goes on
process_star_forgets_star(self, b) ==
    IF b = SLASH
    THEN [self |-> [self EXCEPT !.current_state = "Code"], ret |-> BYTE_NOT_COUNTED]
    ELSE IF b = STAR
    THEN [self |-> [self EXCEPT !.current_state = "BlockStar"], ret |-> ONE_BYTE_COUNTED]
    ELSE [self |-> [self EXCEPT !.current_state = "Block"], ret |-> ONE_BYTE_COUNTED]

\* process_star not counting the '*' before a further '*'
process_star_star_uncounted(self, b) ==
    IF b = SLASH
    THEN [self |-> [self EXCEPT !.current_state = "Code"], ret |-> BYTE_NOT_COUNTED]
    ELSE IF b = STAR
    THEN [self |-> [self EXCEPT !.current_state = "BlockStar"], ret |-> BYTE_NOT_COUNTED]
    ELSE [self |-> [self EXCEPT !.current_state = "Block"], ret |-> TWO_BYTES_COUNTED]

\* process_star taking the '/' of a closing "*/" as the start of an opener
process_star_close_to_slash(self, b) ==
    IF b = SLASH
    THEN [self |-> [self EXCEPT !.current_state = "Slash"], ret |-> BYTE_NOT_COUNTED]
    ELSE IF b = STAR
    THEN [self |-> [self EXCEPT !.current_state = "BlockStar"], ret |-> ONE_BYTE_COUNTED]
    ELSE [self |-> [self EXCEPT !.current_state = "Block"], ret |-> TWO_BYTES_COUNTED]

\* process_star counting only one byte when the comment goes on after a '*'
process_star_other_one(self, b) ==
    IF b = SLASH
    THEN [self |-> [self EXCEPT !.current_state = "Code"], ret |-> BYTE_NOT_COUNTED]
    ELSE IF b = STAR
    THEN [self |-> [self EXCEPT !.current_state = "BlockStar"], ret |-> ONE_BYTE_COUNTED]
    ELSE [self |-> [self EXCEPT !.current_state = "Block"], ret |-> ONE_BYTE_COUNTED]

process_star(self, b) ==
    IF b = SLASH
    THEN [self |-> [self EXCEPT !.current_state = "Code"], ret |-> BYTE_NOT_COUNTED]
    ELSE IF b = STAR
    THEN [self |-> [self EXCEPT !.current_state = "BlockStar"], ret |-> ONE_BYTE_COUNTED]
    ELSE [self |-> [self EXCEPT !.current_state = "Block"], ret |-> TWO_BYTES_COUNTED]

\* process_byte sending BlockStar to the helper of Block
process_byte_star_as_block(self, b) ==
    CASE self.current_state = "Code"      -> process_code(self, b)
      [] self.current_state = "Slash"     -> process_slash(self, b)
      [] self.current_state = "Block"     -> process_comment(self, b)
      [] self.current_state = "BlockStar" -> process_comment(self, b)

process_byte(self, b) ==
    CASE self.current_state = "Code"      -> process_code(self, b)
      [] self.current_state = "Slash"     -> process_slash(self, b)
      [] self.current_state = "Block"     -> process_comment(self, b)
      [] self.current_state = "BlockStar" -> process_star(self, b)

(***************************************************************************)
(* old/06_state_machine_comments.rs: FsmState::transition, one match over  *)
(* (state, byte) whose arms are tried in order; returns <<next, added>>.   *)
(***************************************************************************)
\* FsmState::transition counting 1 for the two bytes of '*' + other
transition_star_other_one(self, b) ==
    CASE self = "Code" /\ b = SLASH      -> <<"Slash", 0>>
      [] self = "Code" /\ b # SLASH      -> <<"Code", 0>>
      [] self = "Slash" /\ b = STAR      -> <<"Block", 0>>
      [] self = "Slash" /\ b # STAR      -> <<"Code", 0>>
      [] self = "Block" /\ b = STAR      -> <<"BlockStar", 0>>
      [] self = "Block" /\ b # STAR      -> <<"Block", 1>>
      [] self = "BlockStar" /\ b = SLASH -> <<"Code", 0>>
      [] self = "BlockStar" /\ b = STAR  -> <<"BlockStar", 1>>
      [] self = "BlockStar" /\ b \notin {SLASH, STAR} -> <<"Block", 1>>

transition(self, b) ==
    CASE self = "Code" /\ b = SLASH      -> <<"Slash", 0>>
      [] self = "Code" /\ b # SLASH      -> <<"Code", 0>>
      [] self = "Slash" /\ b = STAR      -> <<"Block", 0>>
      [] self = "Slash" /\ b # STAR      -> <<"Code", 0>>
      [] self = "Block" /\ b = STAR      -> <<"BlockStar", 0>>
      [] self = "Block" /\ b # STAR      -> <<"Block", 1>>
      [] self = "BlockStar" /\ b = SLASH -> <<"Code", 0>>
      [] self = "BlockStar" /\ b = STAR  -> <<"BlockStar", 1>>
      [] self = "BlockStar" /\ b \notin {SLASH, STAR} -> <<"Block", 2>>

(***************************************************************************)
(* Typestate HttpClient: examples/06_state_machine_typed.rs                *)
(* The type parameter State of HttpClient<State> is the field State.       *)
(***************************************************************************)
Addresses == {"http://localhost:8080", "http://example.org"}

HttpClient_new(address) == [address |-> address, State |-> "Uninitialized"]

HttpClient_connect(self) == [address |-> self.address, State |-> "Connected"]

HttpClient_close(self) == [address |-> self.address, State |-> "Closed"]

\* the methods of the three impl blocks with send declared for every State
Methods_send_everywhere(State) ==
    CASE State = "Uninitialized" -> {"connect", "status", "send"}
      [] State = "Connected"     -> {"send", "close", "status"}
      [] State = "Closed"        -> {"status", "send"}

\* the methods that impl HttpClient<State> declares: a call of any other
\* method on a value of that type does not compile
Methods(State) ==
    CASE State = "Uninitialized" -> {"connect", "status"}
      [] State = "Connected"     -> {"send", "close", "status"}
      [] State = "Closed"        -> {"status"}

(***************************************************************************)
(* Demo machine Validated -> Enriched -> Persisted.                        *)
(* A Box<dyn State> is a record naming its concrete type.                  *)
(***************************************************************************)
\* the one value of enum Event / FsmEvent
Process == "Process"

Events == {Process}

DemoStateNames == {"Validated", "Enriched", "Persisted"}

\* examples/04_state_machine.rs: trait State
Validated_handle(self, event) == [type |-> "Enriched"]

\* Enriched::handle returning itself, as a final state does
Enriched_handle_stays(self, event) == self

Enriched_handle(self, event) == [type |-> "Persisted"]

Persisted_handle(self, event) == self

State_handle(self, event) ==
    CASE self.type = "Validated" -> Validated_handle(self, event)
      [] self.type = "Enriched" -> Enriched_handle(self, event)
      [] self.type = "Persisted" -> Persisted_handle(self, event)

State_name(self) ==
    CASE self.type = "Validated" -> "Validated"
      [] self.type = "Enriched" -> "Enriched"
      [] self.type = "Persisted" -> "Persisted"

\* examples/04_state_machine_traits.rs: trait FsmState
Validated_process_event(self, event) == [type |-> "Enriched"]

Enriched_process_event(self, event) == [type |-> "Persisted"]

Persisted_process_event(self, event) == self

FsmState_process_event(self, event) ==
    CASE self.type = "Validated" -> Validated_process_event(self, event)
      [] self.type = "Enriched" -> Enriched_process_event(self, event)
      [] self.type = "Persisted" -> Persisted_process_event(self, event)

FsmState_name(self) ==
    CASE self.type = "Validated" -> "Validated"
      [] self.type = "Enriched" -> "Enriched"
      [] self.type = "Persisted" -> "Persisted"

\* old/05_state_machine_enums.rs: FsmState::transition, a match on (self, event)
FsmState_transition(self, event) ==
    CASE self = "Validated" /\ event = Process -> "Enriched"
      [] self = "Enriched" /\ event = Process -> "Persisted"
      [] self = "Persisted" /\ event = Process -> "Persisted"

\* examples/05_state_machine_enums.rs: struct Fsm
DemoFsm_new == [current_state |-> "Validated"]

\* Fsm::process_event whose Persisted arm starts over
DemoFsm_process_event_persisted_restarts(self, event) ==
    CASE self.current_state = "Validated" /\ event = Process ->
            [self EXCEPT !.current_state = "Enriched"]
      [] self.current_state = "Enriched" /\ event = Process ->
            [self EXCEPT !.current_state = "Persisted"]
      [] self.current_state = "Persisted" /\ event = Process ->
            [self EXCEPT !.current_state = "Validated"]

\* Fsm::process_event whose Enriched arm assigns nothing
DemoFsm_process_event_enriched_stuck(self, event) ==
    CASE self.current_state = "Validated" /\ event = Process ->
            [self EXCEPT !.current_state = "Enriched"]
      [] self.current_state = "Enriched" /\ event = Process -> self
      [] self.current_state = "Persisted" /\ event = Process -> self

DemoFsm_process_event(self, event) ==
    CASE self.current_state = "Validated" /\ event = Process ->
            [self EXCEPT !.current_state = "Enriched"]
      [] self.current_state = "Enriched" /\ event = Process ->
            [self EXCEPT !.current_state = "Persisted"]
      [] self.current_state = "Persisted" /\ event = Process -> self

DemoFsm_current_state(self) == self.current_state

(***************************************************************************)
(* Multi-worker dispatchers: examples/06_tokio_event_dispatcher.rs (round  *)
(* robin) and examples/08_tokio_event_dispatcher.rs (random worker).       *)
(***************************************************************************)
NUM_WORKERS == 3

\* mpsc::channel(100)
CHANNEL_CAPACITY == 100

\* for i in 0..10
NUM_MESSAGES == 10

Workers == 0..(NUM_WORKERS - 1)

\* format!("Message {i}")
format_message(i) == <<"Message ", i>>

Message_Event(data) == [kind |-> "Event", data |-> data]

Message_Shutdown == [kind |-> "Shutdown"]

\* 06: let worker_index = i % NUM_WORKERS, taking the worker after that one
worker_index_next_worker(i) == (i + 1) % NUM_WORKERS

\* 06: let worker_index = i % NUM_WORKERS
worker_index(i) == i % NUM_WORKERS

\* 08: rng.random_range(0..NUM_WORKERS)
random_range == Workers

\* the number of iterations of the loop that sends the Event messages; the
\* random dispatcher is explored on its first MaxRandomMessages messages
SendCount(d) == IF d = "round_robin" THEN NUM_MESSAGES ELSE MaxRandomMessages

\* the match of start_worker on a Shutdown that does not break
start_worker_match_no_break(msg) ==
    CASE msg.kind = "Event" -> "recv"
      [] msg.kind = "Shutdown" -> "recv"

\* the match of start_worker: where the worker stands after msg
start_worker_match(msg) ==
    CASE msg.kind = "Event" -> "recv"
      [] msg.kind = "Shutdown" -> "exited"

(***************************************************************************)
(* Single-worker dispatcher: examples/05_tokio_event_dispatcher.rs.        *)
(***************************************************************************)
\* mpsc::channel(100)
SINGLE_CHANNEL_CAPACITY == 100

\* Message::Event("hello".into())
Message_hello == Message_Event("hello")

\* the match of start_worker: where the worker stands after msg
single_start_worker_match(msg) ==
    CASE msg.kind = "Event" -> "recv"
      [] msg.kind = "Shutdown" -> "exited"

(***************************************************************************)
(* Command bus: examples/11_command_bus.rs.  A type (a command type C, a   *)
(* handler type H) is its name; TypeId::of::<C>() is the name of C.        *)
(***************************************************************************)
\* the impl Handler<C> for H blocks: the pairs <<C, H>> that satisfy the
\* bound H: Handler<C> of register and dispatch
Handler_impls == {<<"CreateUser", "CreateUserHandler">>,
                  <<"DeleteUser", "DeleteUserHandler">>}

\* the commands of main, and a DeleteUser with id 0
Commands == {[type |-> "CreateUser", name |-> "Alice"],
             [type |-> "CreateUser", name |-> ""],
             [type |-> "DeleteUser", id |-> 42],
             [type |-> "DeleteUser", id |-> 0]}

Ok(v) == [tag |-> "Ok", value |-> v]

Err(e) == [tag |-> "Err", value |-> e]

\* panic!("{}", msg): the call does not return
Panic(msg) == [tag |-> "panic", value |-> msg]

CreateUserHandler_handle(cmd) ==
    IF cmd.name = ""
    THEN Err("Name cannot be empty")
    ELSE Ok(<<"User created: ", cmd.name>>)

DeleteUserHandler_handle(cmd) ==
    IF cmd.id = 0
    THEN Err("Invalid ID")
    ELSE Ok(TRUE)

\* handler.handle(cmd) on a handler of type H
Handler_handle(H, cmd) ==
    CASE H = "CreateUserHandler" -> CreateUserHandler_handle(cmd)
      [] H = "DeleteUserHandler" -> DeleteUserHandler_handle(cmd)

\* HashMap::new(): the map TypeId -> Box<dyn Any>, a box being the name of
\* the concrete type it holds
CommandBus_new == [handlers |-> [t \in {} |-> ""]]

\* register::<C, H>(handler)
CommandBus_register(self, C, H) ==
    [handlers |-> [t \in (DOMAIN self.handlers) \cup {C} |->
                        IF t = C THEN H ELSE self.handlers[t]]]

\* dispatch::<C, H>(cmd) with C the type of cmd
CommandBus_dispatch(self, cmd, H) ==
    IF cmd.type \in DOMAIN self.handlers
    THEN IF self.handlers[cmd.type] = H
         THEN Handler_handle(H, cmd)
         ELSE Panic(<<"Wrong handler type for the command ", cmd.type>>)
    ELSE Panic(<<"No handler registered for the command ", cmd.type>>)

(***************************************************************************)
(* State.                                                                  *)
(***************************************************************************)
VARIABLES
    text,          \* the &str handed to the three scanners
    fsm,           \* 01_enums_fsm: the Fsm (current_state, statistics)
    fsm_i,         \* 01_enums_fsm: chars of text consumed by Fsm::process_text
    parser,        \* 02_traits_fsm: the TraitParser (state slot, statistics)
    parser_i,      \* 02_traits_fsm: chars consumed by TraitParser::process_text
    parser_pc,     \* 02_traits_fsm: "loop" between iterations, "taken" after take()
    current_state, \* 02_traits_fsm: the local of process_text holding the taken box
    m,             \* 07_typed: the Machine of process_text
    m_i,           \* 07_typed: chars consumed by process_text
    data,          \* the bytes read from the file
    my_fsm,        \* 06_enums_comments: the Fsm of main
    nb_bytes,      \* 06_enums_comments: running total of main
    byte_i,        \* 06_enums_comments: bytes consumed by main's loop
    state,         \* old/06: the FsmState of main
    old_nb_bytes,  \* old/06: running total of main
    old_i,         \* old/06: bytes consumed by main's loop
    hist,          \* 06_enums_comments: history, the state and the total after each byte
    old_hist,      \* old/06: history, the state and the total after each byte
    client,        \* 06_typed: the one live HttpClient<State> binding
    ops,           \* 06_typed: history, the methods called on the client so far
    sm,            \* 04_state_machine: the locals of process_event and its position
    tr,            \* 04_state_machine_traits: the locals of process_event and its position
    en,            \* old/05: the locals of process_event and its position
    ev04,          \* 04_state_machine: a Box<dyn State> and the events it has handled
    ev04t,         \* 04_state_machine_traits: a Box<dyn FsmState> and the events handled
    ev05,          \* 05_state_machine_enums: the Fsm of main and the events processed
    evOld,         \* old/05: an FsmState and the transitions taken
    dispatcher,    \* which main runs: "round_robin" (06) or "random" (08)
    main_pc,       \* dispatcher: the loop main is in
    main_i,        \* dispatcher: the index of that loop
    chan,          \* dispatcher: for each worker, the messages in its channel
    worker_pc,     \* dispatcher: "unspawned", "recv" (in the loop) or "exited"
    sent,          \* dispatcher: history, the messages main sent to each worker
    received,      \* dispatcher: history, the messages each worker matched
    s_main_pc,     \* 05_tokio: where main stands
    s_chan,        \* 05_tokio: the messages in the channel
    s_worker_pc,   \* 05_tokio: "unspawned", "recv", "exited" or "cancelled"
    s_received,    \* 05_tokio: history, the messages the worker matched
    bus,           \* 11_command_bus: the CommandBus
    bus_ret,       \* 11_command_bus: what the last dispatch returned, or its panic
    bus_log        \* 11_command_bus: history, the calls made on the bus

textVars == <<text, fsm, fsm_i, parser, parser_i, parser_pc, current_state, m, m_i>>

commentVars == <<data, my_fsm, nb_bytes, byte_i, state, old_nb_bytes, old_i, hist, old_hist>>

httpVars == <<client, ops>>

demoVars == <<sm, tr, en>>

eventVars == <<ev04, ev04t, ev05, evOld>>

dispatchVars == <<dispatcher, main_pc, main_i, chan, worker_pc, sent, received>>

singleVars == <<s_main_pc, s_chan, s_worker_pc, s_received>>

busVars == <<bus, bus_ret, bus_log>>

vars == <<textVars, commentVars, httpVars, demoVars, eventVars, dispatchVars, busVars, singleVars>>

\* what a step of one program leaves alone: the variables of the others
notTextVars == <<commentVars, httpVars, demoVars, eventVars, dispatchVars, busVars, singleVars>>

notCommentVars == <<textVars, httpVars, demoVars, eventVars, dispatchVars, busVars, singleVars>>

notHttpVars == <<textVars, commentVars, demoVars, eventVars, dispatchVars, busVars, singleVars>>

notDemoVars == <<textVars, commentVars, httpVars, eventVars, dispatchVars, busVars, singleVars>>

notEventVars == <<textVars, commentVars, httpVars, demoVars, dispatchVars, busVars, singleVars>>

notDispatchVars == <<textVars, commentVars, httpVars, demoVars, eventVars, busVars, singleVars>>

notBusVars == <<textVars, commentVars, httpVars, demoVars, eventVars, dispatchVars, singleVars>>

notSingleVars == <<textVars, commentVars, httpVars, demoVars, eventVars, dispatchVars, busVars>>

(***************************************************************************)
(* TextStats: the three scanners run over the same text.                   *)
(***************************************************************************)
TextStart(t) ==
    /\ text = t
    /\ fsm = Fsm_new
    /\ fsm_i = 0
    /\ parser = TraitParser_new
    /\ parser_i = 0
    /\ parser_pc = "loop"
    /\ current_state = None
    /\ m = Machine_new
    /\ m_i = 0

\* the iteration of Fsm::process_text with the statistics kept in one record
\* shared by the scans instead of a field of each machine
Fsm_process_text_step_shared_statistics ==
    /\ fsm_i < Len(text)
    /\ fsm' = Fsm_process_char([fsm EXCEPT !.statistics = parser.statistics],
                               text[fsm_i + 1])
    /\ parser' = [parser EXCEPT !.statistics = fsm'.statistics]
    /\ fsm_i' = fsm_i + 1
    /\ UNCHANGED <<text, parser_i, parser_pc, current_state, m, m_i>>
    /\ UNCHANGED notTextVars

\* one iteration of the loop of Fsm::process_text
Fsm_process_text_step ==
    /\ fsm_i < Len(text)
    /\ fsm' = Fsm_process_char(fsm, text[fsm_i + 1])
    /\ fsm_i' = fsm_i + 1
    /\ UNCHANGED <<text, parser, parser_i, parser_pc, current_state, m, m_i>>
    /\ UNCHANGED notTextVars

\* TraitParser::process_text, `let current_state = self.state.take().unwrap();`
\* unwrap() of an empty slot panics
TraitParser_take ==
    /\ parser_pc = "loop"
    /\ parser_i < Len(text)
    /\ IF parser.state = None
       THEN /\ parser_pc' = "panicked"
            /\ UNCHANGED <<parser, current_state>>
       ELSE /\ current_state' = Option_take(parser.state).value
            /\ parser' = [parser EXCEPT !.state = Option_take(parser.state).slot]
            /\ parser_pc' = "taken"
    /\ UNCHANGED <<text, fsm, fsm_i, parser_i, m, m_i>>
    /\ UNCHANGED notTextVars

\* TraitParser::process_text,
\* `self.state = Some(current_state.process_char(c, &mut self.statistics));`
TraitParser_process_char ==
    /\ parser_pc = "taken"
    /\ LET r == FsmState_process_char(current_state[1], text[parser_i + 1],
                                      parser.statistics)
       IN  parser' = [state |-> TraitParser_put_back(r.box), statistics |-> r.statistics]
    /\ current_state' = None
    /\ parser_i' = parser_i + 1
    /\ parser_pc' = "loop"
    /\ UNCHANGED <<text, fsm, fsm_i, m, m_i>>
    /\ UNCHANGED notTextVars

\* one iteration of the loop of process_text (typestate)
Machine_process_text_step ==
    /\ m_i < Len(text)
    /\ m' = Machine_process_char(m, text[m_i + 1])
    /\ m_i' = m_i + 1
    /\ UNCHANGED <<text, fsm, fsm_i, parser, parser_i, parser_pc, current_state>>
    /\ UNCHANGED notTextVars

TextNext ==
    \/ Fsm_process_text_step
    \/ TraitParser_take
    \/ TraitParser_process_char
    \/ Machine_process_text_step

(***************************************************************************)
(* Comment counter: both mains run over the same bytes.                    *)
(***************************************************************************)
CommentStart(d) ==
    /\ data = d
    /\ my_fsm = CommentFsm_new
    /\ nb_bytes = 0
    /\ byte_i = 0
    /\ state = "Code"
    /\ old_nb_bytes = 0
    /\ old_i = 0
    /\ hist = <<>>
    /\ old_hist = <<>>

\* examples/06 main: `nb_bytes += my_fsm.process_byte(current_byte);`
Main_process_byte ==
    /\ byte_i < Len(data)
    /\ LET r == process_byte(my_fsm, data[byte_i + 1])
       IN  /\ my_fsm' = r.self
           /\ nb_bytes' = nb_bytes + r.ret
    /\ byte_i' = byte_i + 1
    /\ hist' = Append(hist, [state |-> my_fsm'.current_state, total |-> nb_bytes'])
    /\ UNCHANGED <<data, state, old_nb_bytes, old_i, old_hist>>
    /\ UNCHANGED notCommentVars

\* old/06 main: `let (next, add) = state.transition(current_byte); ...`
OldMain_transition ==
    /\ old_i < Len(data)
    /\ LET r == transition(state, data[old_i + 1])
       IN  /\ state' = r[1]
           /\ old_nb_bytes' = old_nb_bytes + r[2]
    /\ old_i' = old_i + 1
    /\ old_hist' = Append(old_hist, [state |-> state', total |-> old_nb_bytes'])
    /\ UNCHANGED <<data, my_fsm, nb_bytes, byte_i, hist>>
    /\ UNCHANGED notCommentVars

CommentNext ==
    \/ Main_process_byte
    \/ OldMain_transition

(***************************************************************************)
(* Text scanners fed chunk by chunk: every call of process_text takes the  *)
(* next chunk of the text, of any length, on the same machine.             *)
(***************************************************************************)
Fsm_process_text_call ==
    /\ \E n \in 0..(Len(text) - fsm_i) :
          /\ fsm' = Fsm_process_text(fsm, SubSeq(text, fsm_i + 1, fsm_i + n))
          /\ fsm_i' = fsm_i + n
    /\ UNCHANGED <<text, parser, parser_i, parser_pc, current_state, m, m_i>>
    /\ UNCHANGED notTextVars

TraitParser_process_text_call ==
    /\ parser_pc = "loop"
    /\ \E n \in 0..(Len(text) - parser_i) :
          /\ parser' = TraitParser_process_text(parser,
                                                SubSeq(text, parser_i + 1, parser_i + n))
          /\ parser_i' = parser_i + n
    /\ UNCHANGED <<text, fsm, fsm_i, parser_pc, current_state, m, m_i>>
    /\ UNCHANGED notTextVars

ChunkNext ==
    \/ Fsm_process_text_call
    \/ TraitParser_process_text_call
    \/ Machine_process_text_step

(***************************************************************************)
(* HttpClient: any program that type-checks calls, on its one live client, *)
(* a method that the impl block of the client's State declares.  connect   *)
(* and close take self by value: the old client is moved, the new one is   *)
(* the live binding.                                                       *)
(***************************************************************************)
HttpStart(a) ==
    /\ client = HttpClient_new(a)
    /\ ops = <<"new">>

Http_connect ==
    /\ Len(ops) < MaxOps
    /\ "connect" \in Methods(client.State)
    /\ client' = HttpClient_connect(client)
    /\ ops' = Append(ops, "connect")
    /\ UNCHANGED notHttpVars

Http_send ==
    /\ Len(ops) < MaxOps
    /\ "send" \in Methods(client.State)
    /\ ops' = Append(ops, "send")
    /\ UNCHANGED client
    /\ UNCHANGED notHttpVars

Http_close ==
    /\ Len(ops) < MaxOps
    /\ "close" \in Methods(client.State)
    /\ client' = HttpClient_close(client)
    /\ ops' = Append(ops, "close")
    /\ UNCHANGED notHttpVars

Http_status ==
    /\ Len(ops) < MaxOps
    /\ "status" \in Methods(client.State)
    /\ ops' = Append(ops, "status")
    /\ UNCHANGED client
    /\ UNCHANGED notHttpVars

HttpNext ==
    \/ Http_connect
    \/ Http_send
    \/ Http_close
    \/ Http_status

(***************************************************************************)
(* Demo machine: the three process_event drivers.  One iteration of the    *)
(* loop is two steps: the call of the transition, then the comparison.     *)
(***************************************************************************)
DemoStart ==
    /\ sm = [state |-> [type |-> "Validated"], current_name |-> "", next |-> None,
             pc |-> "loop", calls |-> 0, visited |-> <<"Validated">>]
    /\ tr = [state |-> [type |-> "Validated"], current_name |-> "", next |-> None,
             pc |-> "loop", calls |-> 0, visited |-> <<"Validated">>]
    /\ en = [state |-> "Validated", next_state |-> None,
             pc |-> "loop", calls |-> 0, visited |-> <<"Validated">>]

\* 04_state_machine, lines 87-88
StateMachine_call ==
    /\ sm.pc = "loop"
    /\ sm' = [sm EXCEPT !.current_name = State_name(sm.state),
                        !.next = State_handle(sm.state, Process),
                        !.calls = @ + 1,
                        !.pc = "called"]
    /\ UNCHANGED <<tr, en>>
    /\ UNCHANGED notDemoVars

\* 04_state_machine, lines 91-96
StateMachine_compare ==
    /\ sm.pc = "called"
    /\ sm' = IF sm.current_name = State_name(sm.next)
             THEN [sm EXCEPT !.pc = "done"]
             ELSE [sm EXCEPT !.state = sm.next,
                             !.visited = Append(@, State_name(sm.next)),
                             !.pc = "loop"]
    /\ UNCHANGED <<tr, en>>
    /\ UNCHANGED notDemoVars

\* 04_state_machine_traits, lines 87-88
Traits_call ==
    /\ tr.pc = "loop"
    /\ tr' = [tr EXCEPT !.current_name = FsmState_name(tr.state),
                        !.next = FsmState_process_event(tr.state, Process),
                        !.calls = @ + 1,
                        !.pc = "called"]
    /\ UNCHANGED <<sm, en>>
    /\ UNCHANGED notDemoVars

\* 04_state_machine_traits, lines 91-96
Traits_compare ==
    /\ tr.pc = "called"
    /\ tr' = IF tr.current_name = FsmState_name(tr.next)
             THEN [tr EXCEPT !.pc = "done"]
             ELSE [tr EXCEPT !.state = tr.next,
                             !.visited = Append(@, FsmState_name(tr.next)),
                             !.pc = "loop"]
    /\ UNCHANGED <<sm, en>>
    /\ UNCHANGED notDemoVars

\* old/05, line 60
Enums_call ==
    /\ en.pc = "loop"
    /\ en' = [en EXCEPT !.next_state = FsmState_transition(en.state, Process),
                        !.calls = @ + 1,
                        !.pc = "called"]
    /\ UNCHANGED <<sm, tr>>
    /\ UNCHANGED notDemoVars

\* old/05, lines 62-67
Enums_compare ==
    /\ en.pc = "called"
    /\ en' = IF en.state = en.next_state
             THEN [en EXCEPT !.pc = "done"]
             ELSE [en EXCEPT !.state = en.next_state,
                             !.visited = Append(@, en.next_state),
                             !.pc = "loop"]
    /\ UNCHANGED <<sm, tr>>
    /\ UNCHANGED notDemoVars

DemoNext ==
    \/ StateMachine_call
    \/ StateMachine_compare
    \/ Traits_call
    \/ Traits_compare
    \/ Enums_call
    \/ Enums_compare

(***************************************************************************)
(* Demo machine: Process events applied one after the other to a machine   *)
(* of each of the four files, as main of 05_state_machine_enums does.      *)
(***************************************************************************)
EventsStart ==
    /\ ev04 = [state |-> [type |-> "Validated"], n |-> 0]
    /\ ev04t = [state |-> [type |-> "Validated"], n |-> 0]
    /\ ev05 = [my_fsm |-> DemoFsm_new, n |-> 0]
    /\ evOld = [state |-> "Validated", n |-> 0]

Event_handle ==
    /\ ev04.n < MaxEvents
    /\ ev04' = [state |-> State_handle(ev04.state, Process), n |-> ev04.n + 1]
    /\ UNCHANGED <<ev04t, ev05, evOld>>
    /\ UNCHANGED notEventVars

Event_process_event_traits ==
    /\ ev04t.n < MaxEvents
    /\ ev04t' = [state |-> FsmState_process_event(ev04t.state, Process), n |-> ev04t.n + 1]
    /\ UNCHANGED <<ev04, ev05, evOld>>
    /\ UNCHANGED notEventVars

Event_process_event ==
    /\ ev05.n < MaxEvents
    /\ ev05' = [my_fsm |-> DemoFsm_process_event(ev05.my_fsm, Process), n |-> ev05.n + 1]
    /\ UNCHANGED <<ev04, ev04t, evOld>>
    /\ UNCHANGED notEventVars

Event_transition ==
    /\ evOld.n < MaxEvents
    /\ evOld' = [state |-> FsmState_transition(evOld.state, Process), n |-> evOld.n + 1]
    /\ UNCHANGED <<ev04, ev04t, ev05>>
    /\ UNCHANGED notEventVars

EventsNext ==
    \/ Event_handle
    \/ Event_process_event_traits
    \/ Event_process_event
    \/ Event_transition

(***************************************************************************)
(* Dispatchers: main and the spawned workers are tasks of the runtime.     *)
(***************************************************************************)
DispatchStart(d) ==
    /\ dispatcher = d
    /\ main_pc = "spawn"
    /\ main_i = 0
    /\ chan = [w \in Workers |-> <<>>]
    /\ worker_pc = [w \in Workers |-> "unspawned"]
    /\ sent = [w \in Workers |-> <<>>]
    /\ received = [w \in Workers |-> <<>>]

\* one iteration of the loop that creates the channels and spawns the workers
Main_spawn ==
    /\ main_pc = "spawn"
    /\ worker_pc' = [worker_pc EXCEPT ![main_i] = "recv"]
    /\ IF main_i + 1 < NUM_WORKERS
       THEN main_i' = main_i + 1 /\ UNCHANGED main_pc
       ELSE main_i' = 0 /\ main_pc' = "send"
    /\ UNCHANGED <<dispatcher, chan, sent, received>>
    /\ UNCHANGED notDispatchVars

\* senders[w].send(msg).await.unwrap(): waits while the channel is full,
\* panics when the receiver is gone
Sender_send(w, msg, pc_after, i_after) ==
    /\ Len(chan[w]) < CHANNEL_CAPACITY
    /\ IF worker_pc[w] = "exited"
       THEN /\ main_pc' = "panicked"
            /\ UNCHANGED <<main_i, chan, sent>>
       ELSE /\ chan' = [chan EXCEPT ![w] = Append(@, msg)]
            /\ sent' = [sent EXCEPT ![w] = Append(@, msg)]
            /\ main_pc' = pc_after
            /\ main_i' = i_after

\* one iteration of the loop that sends the Event messages
Main_send_event ==
    /\ main_pc = "send"
    /\ main_i < SendCount(dispatcher)
    /\ \E w \in (IF dispatcher = "round_robin" THEN {worker_index(main_i)} ELSE random_range) :
            IF main_i + 1 < SendCount(dispatcher)
            THEN Sender_send(w, Message_Event(format_message(main_i)), "send", main_i + 1)
            ELSE Sender_send(w, Message_Event(format_message(main_i)), "shutdown", 0)
    /\ UNCHANGED <<dispatcher, worker_pc, received>>
    /\ UNCHANGED notDispatchVars

\* one iteration of for tx in &senders
Main_send_shutdown ==
    /\ main_pc = "shutdown"
    /\ IF main_i + 1 < NUM_WORKERS
       THEN Sender_send(main_i, Message_Shutdown, "shutdown", main_i + 1)
       ELSE Sender_send(main_i, Message_Shutdown, "wait", 0)
    /\ UNCHANGED <<dispatcher, worker_pc, received>>
    /\ UNCHANGED notDispatchVars

\* one iteration of for handle in handles: handle.await completes when the
\* worker's task has returned
Main_wait ==
    /\ main_pc = "wait"
    /\ worker_pc[main_i] = "exited"
    /\ IF main_i + 1 < NUM_WORKERS
       THEN main_i' = main_i + 1 /\ UNCHANGED main_pc
       ELSE main_i' = 0 /\ main_pc' = "done"
    /\ UNCHANGED <<dispatcher, chan, worker_pc, sent, received>>
    /\ UNCHANGED notDispatchVars

\* start_worker on a channel that hands over its newest message first
Worker_recv_newest_first(w) ==
    /\ worker_pc[w] = "recv"
    /\ IF chan[w] # <<>>
       THEN /\ received' = [received EXCEPT ![w] = Append(@, chan[w][Len(chan[w])])]
            /\ worker_pc' = [worker_pc EXCEPT ![w] =
                                start_worker_match(chan[w][Len(chan[w])])]
            /\ chan' = [chan EXCEPT ![w] =
                            IF start_worker_match(chan[w][Len(chan[w])]) = "exited"
                            THEN <<>> ELSE SubSeq(chan[w], 1, Len(chan[w]) - 1)]
       ELSE /\ main_pc \in {"done", "panicked"}
            /\ worker_pc' = [worker_pc EXCEPT ![w] = "exited"]
            /\ UNCHANGED <<received, chan>>
    /\ UNCHANGED <<dispatcher, main_pc, main_i, sent>>
    /\ UNCHANGED notDispatchVars

\* one iteration of while let Some(msg) = rx.recv().await: recv takes the
\* oldest message of the channel; it returns None, and the loop ends, when
\* the channel is empty and main has dropped the senders.  rx is dropped
\* with what is left in the channel when start_worker returns.
Worker_recv(w) ==
    /\ worker_pc[w] = "recv"
    /\ IF chan[w] # <<>>
       THEN /\ received' = [received EXCEPT ![w] = Append(@, Head(chan[w]))]
            /\ worker_pc' = [worker_pc EXCEPT ![w] = start_worker_match(Head(chan[w]))]
            /\ chan' = [chan EXCEPT ![w] =
                            IF start_worker_match(Head(chan[w])) = "exited"
                            THEN <<>> ELSE Tail(chan[w])]
       ELSE /\ main_pc \in {"done", "panicked"}
            /\ worker_pc' = [worker_pc EXCEPT ![w] = "exited"]
            /\ UNCHANGED <<received, chan>>
    /\ UNCHANGED <<dispatcher, main_pc, main_i, sent>>
    /\ UNCHANGED notDispatchVars

Main_step ==
    \/ Main_spawn
    \/ Main_send_event
    \/ Main_send_shutdown
    \/ Main_wait

DispatchNext ==
    \/ Main_spawn
    \/ Main_send_event
    \/ Main_send_shutdown
    \/ Main_wait
    \/ \E w \in Workers : Worker_recv(w)

(***************************************************************************)
(* Single-worker dispatcher: main and the spawned worker are tasks of the  *)
(* runtime.  main does not keep the JoinHandle of the worker: when main    *)
(* returns its sender is dropped, and the runtime, dropped next, cancels   *)
(* a task that waits at an await.                                          *)
(***************************************************************************)
SingleStart ==
    /\ s_main_pc = "spawn"
    /\ s_chan = <<>>
    /\ s_worker_pc = "unspawned"
    /\ s_received = <<>>

\* no single-worker program runs
SingleIdle ==
    /\ s_main_pc = "none"
    /\ s_chan = <<>>
    /\ s_worker_pc = "unspawned"
    /\ s_received = <<>>

\* no multi-worker program runs
DispatchIdle ==
    /\ dispatcher = "single"
    /\ main_pc = "none"
    /\ main_i = 0
    /\ chan = [w \in Workers |-> <<>>]
    /\ worker_pc = [w \in Workers |-> "unspawned"]
    /\ sent = [w \in Workers |-> <<>>]
    /\ received = [w \in Workers |-> <<>>]

\* tokio::spawn(start_worker(rx))
SingleMain_spawn ==
    /\ s_main_pc = "spawn"
    /\ s_worker_pc' = "recv"
    /\ s_main_pc' = "send_event"
    /\ UNCHANGED <<s_chan, s_received>>
    /\ UNCHANGED notSingleVars

\* tx.send(msg).await.unwrap(): waits while the channel is full, panics when
\* the receiver is gone
Single_send(msg, pc_after) ==
    /\ Len(s_chan) < SINGLE_CHANNEL_CAPACITY
    /\ IF s_worker_pc \in {"exited", "cancelled"}
       THEN /\ s_main_pc' = "panicked"
            /\ UNCHANGED s_chan
       ELSE /\ s_chan' = Append(s_chan, msg)
            /\ s_main_pc' = pc_after

SingleMain_send_event ==
    /\ s_main_pc = "send_event"
    /\ Single_send(Message_hello, "send_shutdown")
    /\ UNCHANGED <<s_worker_pc, s_received>>
    /\ UNCHANGED notSingleVars

SingleMain_send_shutdown ==
    /\ s_main_pc = "send_shutdown"
    /\ Single_send(Message_Shutdown, "return")
    /\ UNCHANGED <<s_worker_pc, s_received>>
    /\ UNCHANGED notSingleVars

\* the end of async fn main: tx is dropped
SingleMain_return ==
    /\ s_main_pc = "return"
    /\ s_main_pc' = "returned"
    /\ UNCHANGED <<s_chan, s_worker_pc, s_received>>
    /\ UNCHANGED notSingleVars

\* #[tokio::main]: block_on has returned, the runtime is dropped and the
\* program ends; a worker still at rx.recv().await is dropped there
Single_runtime_shutdown ==
    /\ s_main_pc \in {"returned", "panicked"}
    /\ s_main_pc' = "ended"
    /\ s_worker_pc' = IF s_worker_pc = "recv" THEN "cancelled" ELSE s_worker_pc
    /\ UNCHANGED <<s_chan, s_received>>
    /\ UNCHANGED notSingleVars

\* one iteration of while let Some(msg) = rx.recv().await: recv takes the
\* oldest message; on an empty channel it waits, or returns None, ending the
\* loop, once tx has been dropped
SingleWorker_recv ==
    /\ s_worker_pc = "recv"
    /\ s_main_pc # "ended"
    /\ IF s_chan # <<>>
       THEN /\ s_received' = Append(s_received, Head(s_chan))
            /\ s_worker_pc' = single_start_worker_match(Head(s_chan))
            /\ s_chan' = IF single_start_worker_match(Head(s_chan)) = "exited"
                         THEN <<>> ELSE Tail(s_chan)
       ELSE /\ s_main_pc \in {"returned", "panicked"}
            /\ s_worker_pc' = "exited"
            /\ UNCHANGED <<s_received, s_chan>>
    /\ UNCHANGED s_main_pc
    /\ UNCHANGED notSingleVars

SingleNext ==
    \/ SingleMain_spawn
    \/ SingleMain_send_event
    \/ SingleMain_send_shutdown
    \/ SingleMain_return
    \/ Single_runtime_shutdown
    \/ SingleWorker_recv

(***************************************************************************)
(* Command bus: any program that type-checks registers handlers and        *)
(* dispatches commands on its bus in any order; a panic ends it.           *)
(***************************************************************************)
BusStart ==
    /\ bus = CommandBus_new
    /\ bus_ret = [tag |-> "none"]
    /\ bus_log = <<>>

Bus_register ==
    /\ Len(bus_log) < MaxBusOps
    /\ bus_ret.tag # "panic"
    /\ \E p \in Handler_impls :
            /\ bus' = CommandBus_register(bus, p[1], p[2])
            /\ bus_log' = Append(bus_log, <<"register", p[1], p[2]>>)
    /\ UNCHANGED bus_ret
    /\ UNCHANGED notBusVars

Bus_dispatch ==
    /\ Len(bus_log) < MaxBusOps
    /\ bus_ret.tag # "panic"
    /\ \E cmd \in Commands, p \in Handler_impls :
            /\ p[1] = cmd.type
            /\ bus_ret' = CommandBus_dispatch(bus, cmd, p[2])
            /\ bus_log' = Append(bus_log, <<"dispatch", cmd, p[2]>>)
    /\ UNCHANGED bus
    /\ UNCHANGED notBusVars

BusNext ==
    \/ Bus_register
    \/ Bus_dispatch

(***************************************************************************)
(* Specifications.  In each, the other programs are given the empty input  *)
(* and have nothing to step over.                                          *)
(***************************************************************************)
TextInit ==
    /\ \E t \in Texts : TextStart(t)
    /\ CommentStart(<<>>)
    /\ HttpStart("http://localhost:8080")
    /\ DemoStart
    /\ EventsStart
    /\ DispatchStart("round_robin")
    /\ BusStart
    /\ SingleIdle

SpecText == TextInit /\ [][TextNext]_vars

SpecChunk == TextInit /\ [][ChunkNext]_vars

CommentInit ==
    /\ \E d \in Datas : CommentStart(d)
    /\ TextStart(<<>>)
    /\ HttpStart("http://localhost:8080")
    /\ DemoStart
    /\ EventsStart
    /\ DispatchStart("round_robin")
    /\ BusStart
    /\ SingleIdle

SpecComment == CommentInit /\ [][CommentNext]_vars

HttpInit ==
    /\ \E a \in Addresses : HttpStart(a)
    /\ TextStart(<<>>)
    /\ CommentStart(<<>>)
    /\ DemoStart
    /\ EventsStart
    /\ DispatchStart("round_robin")
    /\ BusStart
    /\ SingleIdle

SpecHttp == HttpInit /\ [][HttpNext]_vars

DemoInit ==
    /\ DemoStart
    /\ EventsStart
    /\ DispatchStart("round_robin")
    /\ BusStart
    /\ SingleIdle
    /\ TextStart(<<>>)
    /\ CommentStart(<<>>)
    /\ HttpStart("http://localhost:8080")

SpecDemo == DemoInit /\ [][DemoNext]_vars

\* each process_event runs on its own thread of control and is never suspended
\* for ever
SpecDemoFair ==
    /\ SpecDemo
    /\ WF_vars(StateMachine_call \/ StateMachine_compare)
    /\ WF_vars(Traits_call \/ Traits_compare)
    /\ WF_vars(Enums_call \/ Enums_compare)

SpecEvents == DemoInit /\ [][EventsNext]_vars

DispatchInit ==
    /\ \E d \in {"round_robin", "random"} : DispatchStart(d)
    /\ TextStart(<<>>)
    /\ CommentStart(<<>>)
    /\ HttpStart("http://localhost:8080")
    /\ DemoStart
    /\ EventsStart
    /\ BusStart
    /\ SingleIdle

SpecDispatch == DispatchInit /\ [][DispatchNext]_vars

\* the runtime polls every task that can make progress: main is not left
\* for ever before a send or an await that can complete, nor a worker before
\* a recv that can return
SpecDispatchFair ==
    /\ SpecDispatch
    /\ WF_vars(Main_step)
    /\ \A w \in Workers : WF_vars(Worker_recv(w))

BusInit ==
    /\ BusStart
    /\ SingleIdle
    /\ TextStart(<<>>)
    /\ CommentStart(<<>>)
    /\ HttpStart("http://localhost:8080")
    /\ DemoStart
    /\ EventsStart
    /\ DispatchStart("round_robin")

SpecBus == BusInit /\ [][BusNext]_vars

\* the three dispatcher programs: the single-worker one, or one of the two
\* multi-worker ones
DispatchersInit ==
    /\ \/ SingleStart /\ DispatchIdle
       \/ SingleIdle /\ \E d \in {"round_robin", "random"} : DispatchStart(d)
    /\ TextStart(<<>>)
    /\ CommentStart(<<>>)
    /\ HttpStart("http://localhost:8080")
    /\ DemoStart
    /\ EventsStart
    /\ BusStart

DispatchersNext ==
    \/ SingleNext
    \/ DispatchNext

SpecDispatchers == DispatchersInit /\ [][DispatchersNext]_vars

(***************************************************************************)
(* Helpers of the properties.                                              *)
(***************************************************************************)
Prefix(s, n) == SubSeq(s, 1, n)

Min(S) == CHOOSE x \in S : \A y \in S : x <= y

TextDone == fsm_i = Len(text) /\ parser_i = Len(text) /\ m_i = Len(text)

Stats(w, l, n) == [word_count |-> w, line_count |-> l, number_count |-> n]

\* number of '\n' in s
NewlineCount(s) == Cardinality({i \in 1..Len(s) : s[i] = NEWLINE})

\* number of maximal runs of alphabetic chars in s
AlphabeticRuns(s) ==
    Cardinality({i \in 1..Len(s) :
                    is_alphabetic(s[i]) /\ (i = 1 \/ ~is_alphabetic(s[i - 1]))})

\* number of maximal runs of numeric chars in s
NumericRuns(s) ==
    Cardinality({i \in 1..Len(s) :
                    is_numeric(s[i]) /\ (i = 1 \/ ~is_numeric(s[i - 1]))})

\* The table of section 4.1, row by row, in the order of the table.
Table41 == <<
    [state |-> "Whitespace", cond |-> "alphabetic", next |-> "InWord",     effect |-> "word_count"],
    [state |-> "Whitespace", cond |-> "numeric",    next |-> "InNumber",   effect |-> "number_count"],
    [state |-> "Whitespace", cond |-> "newline",    next |-> "Whitespace", effect |-> "line_count"],
    [state |-> "Whitespace", cond |-> "other",      next |-> "Whitespace", effect |-> "none"],
    [state |-> "InWord",     cond |-> "alphabetic", next |-> "InWord",     effect |-> "none"],
    [state |-> "InWord",     cond |-> "newline",    next |-> "Whitespace", effect |-> "line_count"],
    [state |-> "InWord",     cond |-> "other",      next |-> "Whitespace", effect |-> "none"],
    [state |-> "InNumber",   cond |-> "numeric",    next |-> "InNumber",   effect |-> "none"],
    [state |-> "InNumber",   cond |-> "newline",    next |-> "Whitespace", effect |-> "line_count"],
    [state |-> "InNumber",   cond |-> "other",      next |-> "Whitespace", effect |-> "none"] >>

Holds41(cond, c) ==
    CASE cond = "alphabetic" -> is_alphabetic(c)
      [] cond = "numeric"    -> is_numeric(c)
      [] cond = "newline"    -> c = NEWLINE
      [] cond = "other"      -> TRUE

\* first row of the table that matches (first match wins)
Row41(st, c) ==
    Table41[Min({k \in 1..Len(Table41) :
                    Table41[k].state = st /\ Holds41(Table41[k].cond, c)})]

Effect41(stats, effect) ==
    IF effect = "none" THEN stats ELSE [stats EXCEPT ![effect] = @ + 1]

\* The table of section 4.2, row by row.
Table42 == <<
    [state |-> "Code",      byte |-> "/",     next |-> "Slash",     count |-> 0],
    [state |-> "Code",      byte |-> "other", next |-> "Code",      count |-> 0],
    [state |-> "Slash",     byte |-> "*",     next |-> "Block",     count |-> 0],
    [state |-> "Slash",     byte |-> "other", next |-> "Code",      count |-> 0],
    [state |-> "Block",     byte |-> "*",     next |-> "BlockStar", count |-> 0],
    [state |-> "Block",     byte |-> "other", next |-> "Block",     count |-> 1],
    [state |-> "BlockStar", byte |-> "/",     next |-> "Code",      count |-> 0],
    [state |-> "BlockStar", byte |-> "*",     next |-> "BlockStar", count |-> 1],
    [state |-> "BlockStar", byte |-> "other", next |-> "Block",     count |-> 2] >>

\* the byte a row of the table names
Byte42(byte) == IF byte = "/" THEN SLASH ELSE STAR

\* "other" is any byte that the other rows of the same state do not name
Holds42(st, byte, b) ==
    IF byte = "other"
    THEN b \notin {Byte42(Table42[k].byte) :
                      k \in {n \in 1..Len(Table42) :
                                Table42[n].state = st /\ Table42[n].byte # "other"}}
    ELSE b = Byte42(byte)

Row42(st, b) ==
    CHOOSE r \in {Table42[k] : k \in 1..Len(Table42)} :
        r.state = st /\ Holds42(st, r.byte, b)

\* Bytes strictly inside block comments, read off the byte sequence itself:
\* from position i outside a comment, a comment opens at the first pair
\* '/' '*', its body starts after the pair and ends before the first following
\* pair '*' '/'.  closed is FALSE when an opened comment has no closer.
RECURSIVE CommentBodies(_, _)
CommentBodies(s, i) ==
    IF i + 1 > Len(s)
    THEN [closed |-> TRUE, count |-> 0]
    ELSE IF s[i] = SLASH /\ s[i + 1] = STAR
    THEN LET closers == {j \in (i + 2)..(Len(s) - 1) : s[j] = STAR /\ s[j + 1] = SLASH}
         IN  IF closers = {}
             THEN [closed |-> FALSE, count |-> 0]
             ELSE LET j == Min(closers)
                      rest == CommentBodies(s, j + 2)
                  IN  [closed |-> rest.closed, count |-> (j - (i + 2)) + rest.count]
    ELSE CommentBodies(s, i + 1)

(***************************************************************************)
(* Properties.                                                             *)
(***************************************************************************)

\* C1: strategy equivalence.  Once the tagged-variant, the dynamic-interface
\* and the typestate scanner have each consumed the whole of the same text,
\* their three (word_count, line_count, number_count) records are equal.
C1_StrategyEquivalence ==
    TextDone =>
        /\ fsm.statistics = parser.statistics
        /\ parser.statistics = Machine_stats(m)

\* C2: every step of the tagged-variant scanner is the first matching row of
\* the table of section 4.1: the next state is the row's, the statistics
\* change by the row's effect and by nothing else.
C2_TaggedImplementsTable ==
    [][fsm_i' = fsm_i + 1 =>
        LET row == Row41(fsm.current_state, text[fsm_i'])
        IN  /\ fsm'.current_state = row.next
            /\ fsm'.statistics = Effect41(fsm.statistics, row.effect)]_vars

\* C2 witness: the tagged scanner has consumed "a\n1": a word, a newline out
\* of InWord and a number, three different rows of the table.
C2_Witness ==
    /\ fsm_i = 3
    /\ Prefix(text, 3) = <<97, 10, 49>>
    /\ fsm.current_state = "InNumber"
    /\ fsm.statistics = Stats(1, 1, 1)

\* C3: in the three scanners, line_count is at every moment the number of
\* '\n' consumed so far, the state right after a '\n' is Whitespace, and
\* "\n\n\n" ends with line_count 3 and no word or number.
C3_NewlinesCounted ==
    /\ fsm.statistics.line_count = NewlineCount(Prefix(text, fsm_i))
    /\ parser.statistics.line_count = NewlineCount(Prefix(text, parser_i))
    /\ Machine_stats(m).line_count = NewlineCount(Prefix(text, m_i))
    /\ (fsm_i > 0 /\ text[fsm_i] = NEWLINE) => fsm.current_state = "Whitespace"
    /\ (parser_i > 0 /\ text[parser_i] = NEWLINE /\ parser_pc = "loop")
            => parser.state = Some("WhitespaceState")
    /\ (m_i > 0 /\ text[m_i] = NEWLINE) => m.variant = "White"
    /\ (text = TextThreeNewlines /\ TextDone) =>
            /\ fsm.statistics = Stats(0, 3, 0)
            /\ parser.statistics = Stats(0, 3, 0)
            /\ Machine_stats(m) = Stats(0, 3, 0)

\* C3 witness: the three scanners have consumed "\n\n\n".
C3_Witness ==
    /\ text = TextThreeNewlines
    /\ TextDone
    /\ fsm.statistics.line_count = 3

\* C4: in the tagged-variant scanner, at every moment word_count is the
\* number of maximal alphabetic runs and number_count the number of maximal
\* numeric runs of the chars consumed so far (a run counts on its first char).
C4_RunsCountedOnce ==
    /\ fsm.statistics.word_count = AlphabeticRuns(Prefix(text, fsm_i))
    /\ fsm.statistics.number_count = NumericRuns(Prefix(text, fsm_i))

\* C5: every step of the comment counter is the row of the table of section
\* 4.2 for its state and byte, in Fsm::process_byte and in
\* FsmState::transition alike: the row's next state, the row's count.
C5_CounterImplementsTable ==
    [][/\ byte_i' = byte_i + 1 =>
            LET row == Row42(my_fsm.current_state, data[byte_i'])
            IN  /\ my_fsm'.current_state = row.next
                /\ nb_bytes' = nb_bytes + row.count
       /\ old_i' = old_i + 1 =>
            LET row == Row42(state, data[old_i'])
            IN  /\ state' = row.next
                /\ old_nb_bytes' = old_nb_bytes + row.count]_vars

\* C5 witness: after "/**a" the counter went BlockStar -> Block on 'a' and
\* counted 2.
C5_Witness ==
    /\ byte_i = 4
    /\ Prefix(data, 4) = <<47, 42, 42, 97>>
    /\ my_fsm.current_state = "Block"
    /\ nb_bytes = 2

\* C6: when every opened block comment of the data is closed, the total of
\* main is the number of bytes strictly inside the comments.
C6_CountsCommentBodies ==
    (byte_i = Len(data) /\ CommentBodies(data, 1).closed)
        => nb_bytes = CommentBodies(data, 1).count

\* C7 as stated: "/***/ " totals 2 counted bytes.
C7_ThreeStarsTotalTwo ==
    (data = DataThreeStars /\ byte_i = Len(data)) => nb_bytes = 2

\* C7 amended: "/***/ " totals 1 counted byte (the opener takes the first
\* star, the closer the last, one star is body) and ends in Code.
C7_ThreeStarsTotalOne ==
    (data = DataThreeStars /\ byte_i = Len(data))
        => nb_bytes = 1 /\ my_fsm.current_state = "Code"

\* C7 witness: main has consumed the six bytes of "/***/ ".
C7_Witness == data = DataThreeStars /\ byte_i = 6

\* C8: on "/**a*/" the counter is in BlockStar with 0 counted after the third
\* byte, in Block with 2 counted after 'a', in BlockStar with 2 after the
\* closing '*', and in Code with 2 at the end.
C8_StarThenLetter ==
    data = DataStarA =>
        /\ byte_i = 3 => my_fsm.current_state = "BlockStar" /\ nb_bytes = 0
        /\ byte_i = 4 => my_fsm.current_state = "Block" /\ nb_bytes = 2
        /\ byte_i = 5 => my_fsm.current_state = "BlockStar" /\ nb_bytes = 2
        /\ byte_i = 6 => my_fsm.current_state = "Code" /\ nb_bytes = 2

\* C8 witness: main has consumed the six bytes of "/**a*/".
C8_Witness == data = DataStarA /\ byte_i = 6 /\ my_fsm.current_state = "Code"

\* C9: "/* hi */" totals 4 counted bytes and ends in Code.
C9_HiTotalFour ==
    (data = DataHi /\ byte_i = Len(data))
        => nb_bytes = 4 /\ my_fsm.current_state = "Code"

\* C9 witness: main has consumed the eight bytes of "/* hi */".
C9_Witness == data = DataHi /\ byte_i = 8 /\ nb_bytes > 0

\* C10: "ab 12\ncd" ends with word_count 2, line_count 1, number_count 1 in
\* each of the three scanners.
C10_Ab12Cd ==
    text = TextAb12Cd =>
        /\ fsm_i = Len(text) => fsm.statistics = Stats(2, 1, 1)
        /\ parser_i = Len(text) => parser.statistics = Stats(2, 1, 1)
        /\ m_i = Len(text) => Machine_stats(m) = Stats(2, 1, 1)

\* C10 witness: the three scanners have consumed "ab 12\ncd".
C10_Witness == text = TextAb12Cd /\ TextDone /\ m.variant = "Word"

\* C11: a machine that has consumed nothing is in its start state with a
\* zeroed accumulator (the three TextStats scanners: Whitespace, all counts
\* 0; the comment counter: Code, 0 bytes), also after process_text was
\* called on an empty chunk, and after the empty input it is still there.
C11_FreshMachineAtStart ==
    /\ fsm_i = 0 =>
            fsm.current_state = "Whitespace" /\ fsm.statistics = Stats(0, 0, 0)
    /\ parser_i = 0 =>
            parser.state = <<"WhitespaceState">> /\ parser.statistics = Stats(0, 0, 0)
    /\ m_i = 0 => m.variant = "White" /\ Machine_stats(m) = Stats(0, 0, 0)
    /\ byte_i = 0 => my_fsm.current_state = "Code" /\ nb_bytes = 0
    /\ old_i = 0 => state = "Code" /\ old_nb_bytes = 0
    /\ Len(text) = 0 => Typed_process_text(text) = Stats(0, 0, 0)

\* C11 witness: the text and the data are empty and every scan is over.
C11_Witness ==
    /\ Len(text) = 0
    /\ TextDone
    /\ Len(data) = 0
    /\ byte_i = Len(data)
    /\ fsm.current_state = "Whitespace"

\* C12: chunk invariance.  However the text consumed so far was cut into the
\* chunks handed to successive process_text calls on one machine (tagged
\* Fsm, dynamic TraitParser), or fed char by char to Machine::process_char,
\* the machine is in the state, with the accumulator, that one process_text
\* call over the same chars gives a fresh machine.
C12_ChunkInvariance ==
    /\ fsm = Fsm_process_text(Fsm_new, Prefix(text, fsm_i))
    /\ parser = TraitParser_process_text(TraitParser_new, Prefix(text, parser_i))
    /\ m = Machine_process_text_loop(Machine_new, Prefix(text, m_i))
    /\ Machine_stats(m) = Typed_process_text(Prefix(text, m_i))

\* C12 witness: a text of three chars with two words has been consumed by
\* the three scanners.
C12_Witness ==
    /\ Len(text) = 3
    /\ TextDone
    /\ fsm.current_state = "InWord"
    /\ fsm.statistics.word_count = 2
    /\ parser.statistics.word_count = 2

\* C13: in the three TextStats scanners no step lowers word_count,
\* line_count or number_count.
C13_CountsMonotone ==
    [][\A k \in {"word_count", "line_count", "number_count"} :
            /\ fsm'.statistics[k] >= fsm.statistics[k]
            /\ parser'.statistics[k] >= parser.statistics[k]
            /\ Machine_stats(m')[k] >= Machine_stats(m)[k]]_vars

\* C13 witness: each scanner has counted a word, a line and a number.
C13_Witness ==
    /\ fsm.statistics = Stats(1, 1, 1)
    /\ parser.statistics = Stats(1, 1, 1)
    /\ Machine_stats(m) = Stats(1, 1, 1)

\* C14: every process_byte step adds 0, 1 or 2 to the running total of main,
\* and a step taken in Code or in Slash adds 0.
C14_TotalMonotone ==
    [][byte_i' = byte_i + 1 =>
            /\ nb_bytes' - nb_bytes \in {0, 1, 2}
            /\ my_fsm.current_state \in {"Code", "Slash"} => nb_bytes' = nb_bytes]_vars

\* C14 witness: the total has grown by 1 and by 2 ("/*a*a": 'a' counts 1,
\* the second 'a' counts itself and the pending '*').
C14_Witness ==
    /\ byte_i = 5
    /\ Prefix(data, 5) = <<47, 42, 97, 42, 97>>
    /\ nb_bytes = 3

\* the declared states of the two automatons
TextStateNames == {"Whitespace", "InWord", "InNumber"}

CommentStateNames == {"Code", "Slash", "Block", "BlockStar"}

\* all bytes
AnyByte == 0..255

\* the sampled chars and some more of the chars the model gives a class to:
\* NUL, '/', 'A', DEL, U+00BD (numeric, category No), U+00FF
AnyChar == Chars \cup {0, 47, 65, 127, 189, 255}

\* C15: the transition functions are total and error-free.  The three text
\* scanners are always in a declared state, take().unwrap() never panics,
\* from every state reached every char has a step into a declared state;
\* from each of the four states of the comment counter every byte 0..255
\* has a step into a declared state, returning 0, 1 or 2 (a fact about
\* process_byte and transition alone, evaluated before the scans start).
C15_TransitionsTotal ==
    /\ fsm.current_state \in TextStateNames
    /\ parser_pc \in {"loop", "taken"}
    /\ parser_pc = "loop" =>
            parser.state \in {<<"WhitespaceState">>, <<"InWordState">>, <<"InNumberState">>}
    /\ m.variant \in {"White", "Word", "Number"}
    /\ \A c \in AnyChar :
            /\ Fsm_process_char(fsm, c).current_state \in TextStateNames
            /\ Machine_process_char(m, c).variant \in {"White", "Word", "Number"}
            /\ parser_pc = "taken" =>
                    FsmState_process_char(current_state[1], c, parser.statistics).box
                        \in {"WhitespaceState", "InWordState", "InNumberState"}
    /\ (fsm_i = 0 /\ parser_i = 0 /\ m_i = 0) =>
            \A st \in CommentStateNames : \A b \in AnyByte :
                /\ process_byte([current_state |-> st], b).self.current_state
                        \in CommentStateNames
                /\ process_byte([current_state |-> st], b).ret \in {0, 1, 2}
                /\ transition(st, b)[1] \in CommentStateNames
                /\ transition(st, b)[2] \in {0, 1, 2}

\* C15 witness: the scanners have consumed three chars and stand in a number.
C15_Witness ==
    /\ Len(text) = 3
    /\ TextDone
    /\ fsm.current_state = "InNumber"
    /\ parser.state = <<"InNumberState">>

\* C16: in the typestate scanner an ASCII digit consumed in InWord leads
\* directly to InNumber with number_count + 1, an alphabetic char consumed in
\* InNumber leads directly to InWord with word_count + 1, nothing else
\* changes; so "a1" and "1a" both end with one word and one number.
C16_DirectWordNumber ==
    [][m_i' = m_i + 1 =>
        LET c == text[m_i']
        IN  /\ (m.variant = "Word" /\ is_ascii_digit(c)) =>
                    /\ m'.variant = "Number"
                    /\ Machine_stats(m') =
                            [Machine_stats(m) EXCEPT !.number_count = @ + 1]
            /\ (m.variant = "Number" /\ is_alphabetic(c)) =>
                    /\ m'.variant = "Word"
                    /\ Machine_stats(m') =
                            [Machine_stats(m) EXCEPT !.word_count = @ + 1]
            /\ (m_i' = 2 /\ Prefix(text, 2) \in {<<97, 49>>, <<49, 97>>}) =>
                    Machine_stats(m') = Stats(1, 0, 1)]_vars

\* C16 witness: after "a1" the typestate machine is in Number with one word
\* and one number counted.
C16_Witness ==
    /\ m_i = 2
    /\ Prefix(text, 2) = <<97, 49>>
    /\ m.variant = "Number"
    /\ Machine_stats(m) = Stats(1, 0, 1)

\* C17: in TraitParser::process_text the slot holds exactly one handle
\* between steps.  Between iterations the slot is Some (take().unwrap()
\* never panics) and the local is gone; while process_char runs the slot is
\* None and the local holds the handle; so there is always exactly one
\* handle, never an old one next to a new one.
C17_SlotHoldsOneHandle ==
    /\ parser_pc \in {"loop", "taken"}
    /\ parser_pc = "loop" =>
            /\ parser.state \in {<<"WhitespaceState">>, <<"InWordState">>, <<"InNumberState">>}
            /\ current_state = <<>>
    /\ parser_pc = "taken" =>
            /\ parser.state = <<>>
            /\ current_state \in {<<"WhitespaceState">>, <<"InWordState">>, <<"InNumberState">>}
    /\ Len(parser.state) + Len(current_state) = 1

\* C17 witness: in the second iteration the handle of InWordState has been
\* taken out of the slot and process_char has not returned yet.
C17_Witness ==
    /\ parser_i = 1
    /\ parser_pc = "taken"
    /\ parser.state = <<>>
    /\ current_state = <<"InWordState">>

\* the state and the total of the comment counter before it consumed byte p
StateBefore(p) == IF p = 1 THEN "Code" ELSE hist[p - 1].state

TotalBefore(p) == IF p = 1 THEN 0 ELSE hist[p - 1].total

\* C18: a run of k >= 1 bytes '*' that the counter starts to consume in Block
\* (bytes p .. p+k-1) leaves it in BlockStar after each star; if the next
\* byte is '/', the counter is then in Code and has counted k-1 bytes since
\* the run began; if the next byte is neither '*' nor '/', the counter is
\* then in Block and has counted k+1 bytes since the run began.
C18_StarRuns ==
    \A p \in 1..byte_i : \A k \in 1..(byte_i - p + 1) :
        (StateBefore(p) = "Block" /\ \A j \in p..(p + k - 1) : data[j] = STAR) =>
            /\ \A j \in p..(p + k - 1) : hist[j].state = "BlockStar"
            /\ (p + k <= byte_i /\ data[p + k] = SLASH) =>
                    /\ hist[p + k].state = "Code"
                    /\ hist[p + k].total - TotalBefore(p) = k - 1
            /\ (p + k <= byte_i /\ data[p + k] \notin {SLASH, STAR}) =>
                    /\ hist[p + k].state = "Block"
                    /\ hist[p + k].total - TotalBefore(p) = k + 1

\* C18 witness: "/****/", a run of three stars inside the comment closed by
\* '/', two bytes counted.
C18_Witness ==
    /\ data = <<47, 42, 42, 42, 42, 47>>
    /\ byte_i = 6
    /\ my_fsm.current_state = "Code"
    /\ nb_bytes = 2

\* C19: two scans with a machine and an accumulator each (the tagged Fsm and
\* the dynamic TraitParser), their steps interleaved in any order: each is at
\* every moment in the state, with the counts, of a scan of the chars it has
\* consumed that runs alone on a fresh machine.
C19_ScansIndependent ==
    /\ fsm = Fsm_process_text(Fsm_new, Prefix(text, fsm_i))
    /\ parser_pc = "loop" =>
            parser = TraitParser_process_text(TraitParser_new, Prefix(text, parser_i))
    /\ parser.statistics =
            TraitParser_process_text(TraitParser_new, Prefix(text, parser_i)).statistics

\* C19 witness: the two scans stand at different places of a text of three
\* chars, the dynamic one ahead, both having counted.
C19_Witness ==
    /\ Len(text) = 3
    /\ fsm_i = 1
    /\ parser_i = 3
    /\ fsm.statistics.word_count = 1
    /\ parser.statistics.number_count = 1

\* some call of method f precedes the call at index i
CalledBefore(f, i) == \E j \in 1..(i - 1) : ops[j] = f

\* C20: the calls made on an HttpClient, status aside, have the form
\* new, connect, send*, close: connect only on the Uninitialized client (at
\* most once, before any send), send and close only on the Connected client
\* (after connect, before close), nothing but status on the Closed client;
\* and the State of the client is the one these calls lead to.
C20_HttpClientProtocol ==
    /\ ops[1] = "new"
    /\ \A i \in 2..Len(ops) :
        /\ ops[i] \in {"connect", "send", "close", "status"}
        /\ ops[i] = "connect" => ~CalledBefore("connect", i)
        /\ ops[i] = "send" => CalledBefore("connect", i) /\ ~CalledBefore("close", i)
        /\ ops[i] = "close" => CalledBefore("connect", i) /\ ~CalledBefore("close", i)
    /\ client.State = "Uninitialized" <=> ~CalledBefore("connect", Len(ops) + 1)
    /\ client.State = "Connected" <=>
            /\ CalledBefore("connect", Len(ops) + 1)
            /\ ~CalledBefore("close", Len(ops) + 1)
    /\ client.State = "Closed" <=> CalledBefore("close", Len(ops) + 1)

\* C20 witness: the calls of main, in its order.
C20_Witness ==
    /\ ops = <<"new", "status", "connect", "status", "send", "close", "status">>
    /\ client = [address |-> "http://localhost:8080", State |-> "Closed"]

DemoOrder == <<"Validated", "Enriched", "Persisted">>

\* C21: each of the three process_event drivers, started in Validated and
\* applying Event::Process again and again, terminates; the states it holds
\* are Validated, Enriched, Persisted in that order; and when it has stopped
\* it has made exactly three transition calls, the last of which was called
\* on Persisted and returned Persisted.
C21_DriverTerminates ==
    /\ <>(sm.pc = "done" /\ tr.pc = "done" /\ en.pc = "done")
    /\ [](/\ sm.visited = Prefix(DemoOrder, Len(sm.visited))
          /\ tr.visited = Prefix(DemoOrder, Len(tr.visited))
          /\ en.visited = Prefix(DemoOrder, Len(en.visited)))
    /\ [](sm.pc = "done" =>
            /\ sm.calls = 3
            /\ sm.visited = DemoOrder
            /\ sm.current_name = "Persisted"
            /\ State_name(sm.next) = "Persisted")
    /\ [](tr.pc = "done" =>
            /\ tr.calls = 3
            /\ tr.visited = DemoOrder
            /\ tr.current_name = "Persisted"
            /\ FsmState_name(tr.next) = "Persisted")
    /\ [](en.pc = "done" =>
            /\ en.calls = 3
            /\ en.visited = DemoOrder
            /\ en.state = "Persisted"
            /\ en.next_state = "Persisted")

\* C21 witness: the three drivers have left their loop.
C21_Witness == sm.pc = "done" /\ tr.pc = "done" /\ en.pc = "done"

\* C22: the enum machines and the trait-object machines behave alike.  For
\* every number n of Process events applied from Validated, the enum Fsm
\* (Fsm::process_event) and the enum FsmState (FsmState::transition) name
\* the same state after n events as the boxes driven by State::handle and by
\* the trait method FsmState::process_event.
C22_EnumMatchesTraits ==
    /\ ev05.n = ev04.n =>
            DemoFsm_current_state(ev05.my_fsm) = State_name(ev04.state)
    /\ ev05.n = ev04t.n =>
            DemoFsm_current_state(ev05.my_fsm) = FsmState_name(ev04t.state)
    /\ evOld.n = ev04.n => evOld.state = State_name(ev04.state)
    /\ evOld.n = ev04t.n => evOld.state = FsmState_name(ev04t.state)

\* C22 witness: the four machines have each taken two events and the enum
\* Fsm has reached Persisted.
C22_Witness ==
    /\ ev05.n = 2 /\ ev04.n = 2 /\ ev04t.n = 2 /\ evOld.n = 2
    /\ DemoFsm_current_state(ev05.my_fsm) = "Persisted"

Last(s) == s[Len(s)]

\* C23: in the multi-worker dispatchers, under fair scheduling of the tasks,
\* each of the three workers eventually matches its Shutdown message and
\* leaves its receive loop, and main's wait on the worker handles eventually
\* completes.
C23_WorkersShutDown ==
    /\ \A w \in Workers :
            <>(/\ worker_pc[w] = "exited"
               /\ received[w] # <<>>
               /\ Last(received[w]) = Message_Shutdown)
    /\ <>(main_pc = "done")

\* C23 witness: main is past its wait loop and every worker has returned.
C23_Witness ==
    /\ main_pc = "done"
    /\ \A w \in Workers : worker_pc[w] = "exited"

\* the Event messages "Message i" with i mod 3 = w, 0 <= i < 10, in order:
\* four for worker 0, three for workers 1 and 2
RoundRobinEvents(w) ==
    [k \in 1..(IF w = 0 THEN 4 ELSE 3) |-> Message_Event(<<"Message ", w + 3 * (k - 1)>>)]

IsPrefix(s, t) == Len(s) <= Len(t) /\ s = Prefix(t, Len(s))

\* C24: in the round-robin dispatcher message i is sent to worker i mod 3 and
\* to no other: what main has sent to worker w is at every moment a prefix of
\* Message w, Message w + 3, ... (4 messages for worker 0, 3 for workers 1
\* and 2) followed by one Shutdown, what worker w has received is a prefix
\* of that, and once main is done every worker has received exactly those
\* Event messages followed by exactly one Shutdown.
C24_RoundRobin ==
    dispatcher = "round_robin" =>
        \A w \in Workers :
            /\ IsPrefix(sent[w], RoundRobinEvents(w) \o <<Message_Shutdown>>)
            /\ IsPrefix(received[w], sent[w])
            /\ main_pc = "done" =>
                    received[w] = RoundRobinEvents(w) \o <<Message_Shutdown>>

\* C24 witness: the round-robin main is done and worker 0 has received five
\* messages, workers 1 and 2 four.
C24_Witness ==
    /\ dispatcher = "round_robin"
    /\ main_pc = "done"
    /\ Len(received[0]) = 5 /\ Len(received[1]) = 4 /\ Len(received[2]) = 4

\* C25: no dispatch on the command bus panics: a command type without a
\* registered handler, a handler of the wrong type and a command that its
\* handler rejects all come back to the caller as an error value.
C25_DispatchNeverPanics ==
    \A k \in 1..Len(bus_log) :
        (k = Len(bus_log) /\ bus_log[k][1] = "dispatch") =>
            bus_ret.tag \in {"Ok", "Err"}

\* the concrete type that implements each state of the tagged enum
BoxOf(name) ==
    CASE name = "Whitespace" -> "WhitespaceState"
      [] name = "InWord" -> "InWordState"
      [] name = "InNumber" -> "InNumberState"

\* C26: the tagged-variant and the dynamic-interface scanners are equivalent
\* step for step: whenever both have consumed the same prefix of the text,
\* the concrete type of the dynamic state handle is the one named by the
\* tagged current_state and the two statistics records are equal.
C26_TaggedMatchesDynamic ==
    (fsm_i = parser_i /\ parser_pc = "loop") =>
        /\ parser.state = Some(BoxOf(fsm.current_state))
        /\ parser.statistics = fsm.statistics

\* C26 witness: both scanners have consumed "1a1" and counted two numbers.
C26_Witness ==
    /\ text = <<49, 97, 49>>
    /\ fsm_i = 3 /\ parser_i = 3 /\ parser_pc = "loop"
    /\ fsm.statistics.number_count = 2

\* C27: the two comment counters agree.  From every state, on every byte
\* 0..255, FsmState::transition (old) returns the next state and the count
\* that Fsm::process_byte reaches and returns (a fact about the two
\* functions, evaluated before the scans start); and whenever the two mains
\* have consumed the same prefix of the data they are in the same state with
\* the same total.
C27_CountersAgree ==
    /\ (byte_i = 0 /\ old_i = 0) =>
            \A st \in CommentStateNames : \A b \in AnyByte :
                transition(st, b) =
                    <<process_byte([current_state |-> st], b).self.current_state,
                      process_byte([current_state |-> st], b).ret>>
    /\ byte_i = old_i =>
            /\ state = my_fsm.current_state
            /\ old_nb_bytes = nb_bytes

\* C27 witness: both mains have consumed "/**a*a", where '*' + 'a' counted 2
\* twice.
C27_Witness ==
    /\ data = <<47, 42, 42, 97, 42, 97>>
    /\ byte_i = 6 /\ old_i = 6
    /\ nb_bytes = 4 /\ state = "Block"

\* C28: the typestate scanner treats as numeric the chars the tagged variant
\* treats as numeric.  For every char that takes the tagged Fsm from
\* Whitespace to InNumber, the typestate machine consuming it in White moves
\* to Number with number_count + 1; for every char that keeps the tagged Fsm
\* in InNumber, the typestate machine consuming it in Number stays in Number
\* with no count changed.
C28_TypedNumericAsTagged ==
    [][m_i' = m_i + 1 =>
        LET c == text[m_i']
            white == [current_state |-> "Whitespace", statistics |-> Machine_stats(m)]
            number == [current_state |-> "InNumber", statistics |-> Machine_stats(m)]
        IN  /\ (m.variant = "White"
                    /\ Fsm_process_char(white, c).current_state = "InNumber") =>
                    /\ m'.variant = "Number"
                    /\ Machine_stats(m') =
                            [Machine_stats(m) EXCEPT !.number_count = @ + 1]
            /\ (m.variant = "Number"
                    /\ Fsm_process_char(number, c).current_state = "InNumber") =>
                    /\ m'.variant = "Number"
                    /\ Machine_stats(m') = Machine_stats(m)]_vars

\* C29: first-match tie-break of the tagged and dynamic scanners.  A char
\* that is both alphabetic and numeric, consumed in Whitespace, starts a
\* word (InWord, word_count + 1, number_count unchanged); consumed in InWord
\* it stays in InWord and consumed in InNumber it stays in InNumber, with no
\* count changed.
C29_TieBreak ==
    [][/\ (fsm_i' = fsm_i + 1
                /\ is_alphabetic(text[fsm_i']) /\ is_numeric(text[fsm_i'])) =>
            /\ fsm.current_state = "Whitespace" =>
                    /\ fsm'.current_state = "InWord"
                    /\ fsm'.statistics =
                            [fsm.statistics EXCEPT !.word_count = @ + 1]
            /\ fsm.current_state \in {"InWord", "InNumber"} =>
                    /\ fsm'.current_state = fsm.current_state
                    /\ fsm'.statistics = fsm.statistics
       /\ (parser_i' = parser_i + 1
                /\ is_alphabetic(text[parser_i']) /\ is_numeric(text[parser_i'])) =>
            /\ current_state = Some("WhitespaceState") =>
                    /\ parser'.state = Some("InWordState")
                    /\ parser'.statistics =
                            [parser.statistics EXCEPT !.word_count = @ + 1]
            /\ current_state \in {Some("InWordState"), Some("InNumberState")} =>
                    /\ parser'.state = current_state
                    /\ parser'.statistics = parser.statistics]_vars

\* C29 witness: on " ", U+2167, U+2167 both scanners have counted one word and
\* are in a word.
C29_Witness ==
    /\ text = <<32, 8551, 8551>>
    /\ fsm_i = 3 /\ fsm.current_state = "InWord"
    /\ parser_i = 3 /\ parser_pc = "loop" /\ parser.state = Some("InWordState")
    /\ fsm.statistics = Stats(1, 0, 0) /\ parser.statistics = Stats(1, 0, 0)

CounterNames == {"word_count", "line_count", "number_count"}

\* the sum of the three counters
Total(stats) == stats.word_count + stats.line_count + stats.number_count

\* C30: a process_char step of any of the three scanners changes at most one
\* of the three counters, and by exactly 1: every counter grows by 0 or 1
\* and their sum grows by 0 or 1.
C30_OneCounterPerStep ==
    [][/\ \A k \in CounterNames :
            /\ fsm'.statistics[k] - fsm.statistics[k] \in {0, 1}
            /\ parser'.statistics[k] - parser.statistics[k] \in {0, 1}
            /\ Machine_stats(m')[k] - Machine_stats(m)[k] \in {0, 1}
       /\ Total(fsm'.statistics) - Total(fsm.statistics) \in {0, 1}
       /\ Total(parser'.statistics) - Total(parser.statistics) \in {0, 1}
       /\ Total(Machine_stats(m')) - Total(Machine_stats(m)) \in {0, 1}]_vars

\* C30 witness: the typestate machine has consumed "a1\n", one counter
\* changing at each step.
C30_Witness ==
    /\ text = <<97, 49, 10>>
    /\ m_i = 3
    /\ Machine_stats(m) = Stats(1, 1, 1)

\* in the history h, position p is where a comment opens: the byte before
\* left the counter in Slash and byte p, a '*', took it to Block
Opens(h, p) == p >= 2 /\ h[p - 1].state = "Slash" /\ h[p].state = "Block"

\* the comment opened at position p of h is still open after byte k
OpenSince(h, p, k) ==
    /\ p <= k
    /\ Opens(h, p)
    /\ \A j \in p..k : h[j].state \in {"Block", "BlockStar"}

\* after the last byte of h: inside a comment there is an opening, and the
\* bytes counted since it are the bytes consumed since it in Block, one less
\* in BlockStar
Accounted(h) ==
    LET k == Len(h)
    IN  (k >= 1 /\ h[k].state \in {"Block", "BlockStar"}) =>
            /\ \E p \in 1..k : OpenSince(h, p, k)
            /\ \A p \in 1..k : OpenSince(h, p, k) =>
                    /\ h[k].state = "Block" => h[k].total - h[p].total = k - p
                    /\ h[k].state = "BlockStar" => h[k].total - h[p].total = k - p - 1

\* C31: accounting invariant of the comment counters.  At every point of a
\* scan inside an open comment, in Block the bytes counted for this comment
\* are the bytes consumed since its opening "/*", in BlockStar they are that
\* number minus 1, the pending '*' being not yet counted; this holds of the
\* per-state helpers and of the tuple match.
C31_Accounting ==
    /\ Accounted(hist)
    /\ Accounted(old_hist)
    /\ Len(hist) = byte_i /\ Len(old_hist) = old_i
    /\ byte_i >= 1 => hist[byte_i] = [state |-> my_fsm.current_state, total |-> nb_bytes]
    /\ old_i >= 1 => old_hist[old_i] = [state |-> state, total |-> old_nb_bytes]

\* C31 witness: both mains have consumed "/*a*" and stand in BlockStar with 1
\* counted of the 2 bytes consumed since the opening.
C31_Witness ==
    /\ data = <<47, 42, 97, 42>>
    /\ byte_i = 4 /\ old_i = 4
    /\ my_fsm.current_state = "BlockStar" /\ state = "BlockStar"
    /\ nb_bytes = 1 /\ old_nb_bytes = 1

HistStateBefore(h, p) == IF p = 1 THEN "Code" ELSE h[p - 1].state

HistTotalBefore(h, p) == IF p = 1 THEN 0 ELSE h[p - 1].total

\* in the history h of a scan of data, no delimiter byte serves twice
NotShared(h) ==
    \A p \in 1..Len(h) :
        /\ (HistStateBefore(h, p) = "Slash" /\ data[p] = STAR) =>
                /\ h[p].state = "Block"
                /\ (p + 1 <= Len(h) /\ data[p + 1] = SLASH) =>
                        /\ h[p + 1].state = "Block"
                        /\ h[p + 1].total = h[p].total + 1
        /\ (HistStateBefore(h, p) = "BlockStar" /\ data[p] = SLASH) =>
                /\ h[p].state = "Code"
                /\ h[p].total = HistTotalBefore(h, p)
                /\ (p + 1 <= Len(h) /\ data[p + 1] = STAR) =>
                        /\ h[p + 1].state = "Code"
                        /\ h[p + 1].total = h[p].total

\* C32: delimiter bytes are never shared between an opener and a closer, in
\* both comment counters.  The '*' of an opening "/*" leads to Block, not to
\* BlockStar, so a '/' right after it leaves the comment open and counts as
\* 1 content byte; the '/' of a closing "*/" leads to Code, not to Slash, so
\* a '*' right after it opens no comment and counts nothing.
C32_DelimitersNotShared ==
    /\ NotShared(hist)
    /\ NotShared(old_hist)

\* C32 witness: both mains have consumed "/*/*/*": the second '/' counted 1
\* inside the comment, and the last '*', after the closer, left them in Code.
C32_Witness ==
    /\ data = <<47, 42, 47, 42, 47, 42>>
    /\ byte_i = 6 /\ old_i = 6
    /\ my_fsm.current_state = "Code" /\ state = "Code"
    /\ nb_bytes = 1 /\ old_nb_bytes = 1

\* what a transition from variant v to variant w on char c adds to the
\* accumulator: a line for a newline, a word on entering Word, a number on
\* entering Number
TransitionEffect(v, w, c) ==
    [word_count |-> IF w = "Word" /\ v # "Word" THEN 1 ELSE 0,
     line_count |-> IF c = NEWLINE THEN 1 ELSE 0,
     number_count |-> IF w = "Number" /\ v # "Number" THEN 1 ELSE 0]

\* C33: in the typestate scanner the accumulator survives every state
\* change.  After Machine::process_char(c), Machine::stats() is the stats
\* before the call plus the effect of the transition taken, whichever variant
\* the machine was in and whichever it moves to: the clone into the new
\* typed machine loses no increment and applies none twice.
C33_AccumulatorSurvives ==
    [][m_i' = m_i + 1 =>
        LET e == TransitionEffect(m.variant, m'.variant, text[m_i'])
        IN  /\ m'.variant \in {"White", "Word", "Number"}
            /\ \A k \in CounterNames :
                    Machine_stats(m')[k] = Machine_stats(m)[k] + e[k]]_vars

\* C33 witness: the typestate machine has consumed "a\n1", going through
\* Word, White and Number with every count kept.
C33_Witness ==
    /\ text = <<97, 10, 49>>
    /\ m_i = 3
    /\ m.variant = "Number"
    /\ Machine_stats(m) = Stats(1, 1, 1)

\* the place of a state on the path Validated -> Enriched -> Persisted
Rank(name) ==
    CASE name = "Validated" -> 0
      [] name = "Enriched" -> 1
      [] name = "Persisted" -> 2

\* the state after n Process events from Validated
StateAfter(n) ==
    IF n = 0 THEN "Validated" ELSE IF n = 1 THEN "Enriched" ELSE "Persisted"

\* C34: the enum demo Fsm only moves forward along Validated -> Enriched ->
\* Persisted.  After n Process events from Fsm::new() it is in Validated for
\* n = 0, Enriched for n = 1 and Persisted for every n >= 2; no event takes
\* it to an earlier state and Persisted is absorbing; the same holds of
\* the trait-object machine, whose Persisted::handle returns itself.
C34_ForwardOnly ==
    /\ [](/\ DemoFsm_current_state(ev05.my_fsm) = StateAfter(ev05.n)
          /\ State_name(ev04.state) = StateAfter(ev04.n))
    /\ [][/\ Rank(DemoFsm_current_state(ev05.my_fsm')) >=
                    Rank(DemoFsm_current_state(ev05.my_fsm))
          /\ DemoFsm_current_state(ev05.my_fsm) = "Persisted" =>
                    DemoFsm_current_state(ev05.my_fsm') = "Persisted"
          /\ Rank(State_name(ev04.state')) >= Rank(State_name(ev04.state))
          /\ State_name(ev04.state) = "Persisted" =>
                    State_name(ev04.state') = "Persisted"]_vars

\* C34 witness: the enum Fsm has processed four events, two of them in
\* Persisted, and the trait-object machine three.
C34_Witness ==
    /\ ev05.n = 4 /\ DemoFsm_current_state(ev05.my_fsm) = "Persisted"
    /\ ev04.n = 3 /\ State_name(ev04.state) = "Persisted"

\* the positions of s that hold the Event message "Message i"
EventAt(s, i) == {k \in 1..Len(s) : s[k] = Message_Event(<<"Message ", i>>)}

\* the Event messages main has sent so far
EventsSent ==
    IF main_pc = "spawn" THEN 0
    ELSE IF main_pc = "send" THEN main_i
    ELSE SendCount(dispatcher)

\* C35: in the multi-worker dispatchers each worker processes the messages
\* sent on its own channel in exactly the order main sent them: what it has
\* processed is a prefix of what was sent to it, and with what waits in its
\* channel it is all that was sent to it; a Shutdown is the last message a
\* worker processes, after every Event sent to it, and the worker has then
\* left its loop; every Event main has sent was sent to exactly one worker,
\* once, and once main is done every worker has processed all it was sent.
C35_WorkerOrder ==
    /\ \A w \in Workers :
            /\ IsPrefix(received[w], sent[w])
            /\ worker_pc[w] # "exited" => received[w] \o chan[w] = sent[w]
            /\ worker_pc[w] = "exited" => received[w] = sent[w]
            /\ \A k \in 1..Len(received[w]) :
                    received[w][k] = Message_Shutdown =>
                        /\ k = Len(received[w])
                        /\ k = Len(sent[w])
                        /\ worker_pc[w] = "exited"
    /\ \A i \in 0..(EventsSent - 1) :
            /\ Cardinality({w \in Workers : EventAt(sent[w], i) # {}}) = 1
            /\ \A w \in Workers : Cardinality(EventAt(sent[w], i)) <= 1
    /\ main_pc = "done" =>
            \A i \in 0..(SendCount(dispatcher) - 1) :
                \E w \in Workers : EventAt(received[w], i) # {}

\* C35 witness: the random main is done after sending every Event to worker
\* 0, which processed them all and then its Shutdown.
C35_Witness ==
    /\ dispatcher = "random"
    /\ main_pc = "done"
    /\ Len(received[0]) = SendCount("random") + 1
    /\ received[1] = <<Message_Shutdown>>
    /\ received[2] = <<Message_Shutdown>>

\* C36: in the single-worker dispatcher, in every interleaving of main and
\* the spawned worker, when the program ends the worker has processed the
\* Event "hello" and then the Shutdown message and has left its loop.
C36_SingleWorkerGraceful ==
    s_main_pc = "ended" =>
        /\ s_received = <<Message_hello, Message_Shutdown>>
        /\ s_worker_pc = "exited"

====
